---- MODULE Spec2Model ----
(***************************************************************************)
(* WIZ lights controller: the session loop of main(), the background       *)
(* effect threads of controls.py, the fire-and-forget sender and the       *)
(* concurrent scanner of network.py.                                       *)
(*                                                                         *)
(* Addresses are modelled by their host number i (the address string is    *)
(* f"{prefix}{i}"); lists are objects on a heap, and names and thread      *)
(* arguments hold references to them, as in Python.                        *)
(***************************************************************************)
EXTENDS Integers, Sequences, FiniteSets, TLC

(* ---------------------------------------------------------------- bounds *)
\* the probed range base_ip.ScanStart .. base_ip.ScanEnd (main() uses 0..255)
ScanStart == 9
ScanEnd == 10
\* effect threads a session may start
MaxThreads == 2
\* comma-separated chunks in one selection input
MaxChunks == 1
\* loop iterations of an effect whose commands are counted
MaxIter == 2
\* worker threads of the scan pool (main() uses 80)
Workers == 2

Hosts == ScanStart..ScanEnd
Tids == 1..MaxThreads
Refs == 1..(MaxThreads + 3)

(* --------------------------------------------------------------- helpers *)
RECURSIVE DecStr(_)
\* str(i) as the sequence of its decimal digits
DecStr(n) == IF n < 10 THEN <<n>> ELSE Append(DecStr(n \div 10), n % 10)

RECURSIVE StrLess(_, _)
\* Python's < on strings (lexicographic, a proper prefix is smaller)
StrLess(s, t) ==
    IF t = <<>> THEN FALSE
    ELSE IF s = <<>> THEN TRUE
    ELSE IF Head(s) # Head(t) THEN Head(s) < Head(t)
    ELSE StrLess(Tail(s), Tail(t))

RECURSIVE sorted(_)
\* sorted(discovered.keys()): the address strings in ascending string order
sorted(S) ==
    IF S = {} THEN <<>>
    ELSE LET m == CHOOSE x \in S : \A y \in S \ {x} : StrLess(DecStr(x), DecStr(y))
         IN <<m>> \o sorted(S \ {m})

Range(s) == {s[j] : j \in 1..Len(s)}

\* variant: the kept addresses in sorted order, each once
Keep_sorted(seq, keys) == sorted(Range(seq) \cap keys)

RECURSIVE Keep(_, _)
\* [ip for ip in seq if ip in keys]
Keep(seq, keys) ==
    IF seq = <<>> THEN <<>>
    ELSE IF Head(seq) \in keys THEN <<Head(seq)>> \o Keep(Tail(seq), keys)
    ELSE Keep(Tail(seq), keys)

(* ------------------------------------------------------- user selections *)
\* one comma-separated chunk after strip(): an integer, text that int() rejects, or nothing
IntChunk(n) == [k |-> "int", v |-> n]
Chunks == {IntChunk(n) : n \in -1..(Cardinality(Hosts))} \cup {[k |-> "bad", v |-> 0], [k |-> "empty", v |-> 0]}

RECURSIVE ChunkSeqs(_)
ChunkSeqs(n) ==
    IF n = 0 THEN {<<>>}
    ELSE LET shorter == ChunkSeqs(n - 1)
         IN shorter \cup {Append(s, c) : s \in {x \in shorter : Len(x) = n - 1}, c \in Chunks}

\* what the user can type at a selection prompt
SelInputs ==
    {[kind |-> "enter", chunks |-> <<>>], [kind |-> "all", chunks |-> <<>>]}
    \cup {[kind |-> "list", chunks |-> s] : s \in ChunkSeqs(MaxChunks) \ {<<>>}}

RECURSIVE chosen(_, _)
\* the for-loop over sel.split(","): valid indices are appended in input order
chosen(lights, chunks) ==
    IF chunks = <<>> THEN <<>>
    ELSE LET c == Head(chunks)
             rest == chosen(lights, Tail(chunks))
         IN IF c.k = "int" /\ 0 <= c.v /\ c.v < Len(lights)
            THEN <<lights[c.v + 1]>> \o rest
            ELSE rest

(* ---------------------------------------------------------------- colours *)
\* hues (multiples of 3) at which the double-precision product r*255 falls just
\* below the exact integer, so that int() yields one less than exact arithmetic
FloatShort == {12, 72, 96, 132, 168, 192, 252, 264, 312, 324}

\* hsv_to_rgb_255(h_deg, 1.0, 1.0) for the hues run_rainbow_in_unison visits:
\* colorsys.hsv_to_rgb with s = v = 1 gives p = 0, q = 1 - f, t = f, and each
\* channel is truncated by int(c * 255)
hsv_to_rgb_255(h_deg) ==
    LET h == h_deg % 360
        i == h \div 60
        m == h % 60
        short == IF h \in FloatShort THEN 1 ELSE 0
        t == (m * 255) \div 60 - (IF (m * 255) % 60 = 0 /\ m # 0 THEN short ELSE 0)
        q == ((60 - m) * 255) \div 60 - (IF ((60 - m) * 255) % 60 = 0 /\ m # 0 THEN short ELSE 0)
        v == 255
        p == 0
    IN CASE i = 0 -> <<v, t, p>>
         [] i = 1 -> <<q, v, p>>
         [] i = 2 -> <<p, v, t>>
         [] i = 3 -> <<p, q, v>>
         [] i = 4 -> <<t, p, v>>
         [] OTHER -> <<v, p, q>>

\* two representative results of the random and clock-driven colour computations
RandomRGB == {<<255, 140, 0>>, <<30, 30, 50>>}

(* ------------------------------------------------------- effect programs *)
\* One iteration of an effect's while-loop is a sequence of operations:
\*   pass  - for ip in ips: set_color_rgb(ip, r, g, b)
\*   sleep - time.sleep (v = <<lowest ms, highest ms, 0>>)
\*   chk   - an inner "if stop_event.is_set(): break"
\*   end   - the end of the for-loop such a break leaves
\*   read  - stream.read of run_reactive
\*   call  - the call of run_reactive_simulated from run_reactive
Cur == [op |-> "pass", k |-> "cur", v |-> <<0, 0, 0>>]
Rnd == [op |-> "pass", k |-> "rnd", v |-> <<0, 0, 0>>]
Each == [op |-> "pass", k |-> "each", v |-> <<0, 0, 0>>]
Lit(r, g, b) == [op |-> "pass", k |-> "lit", v |-> <<r, g, b>>]
Sleep(lo, hi) == [op |-> "sleep", k |-> "ms", v |-> <<lo, hi, 0>>]
Chk == [op |-> "chk", k |-> "", v |-> <<0, 0, 0>>]
End == [op |-> "end", k |-> "", v |-> <<0, 0, 0>>]
Read == [op |-> "read", k |-> "", v |-> <<0, 0, 0>>]
Call == [op |-> "call", k |-> "", v |-> <<0, 0, 0>>]

RECURSIVE Rep(_, _)
Rep(n, block) == IF n = 0 THEN <<>> ELSE block \o Rep(n - 1, block)

\* SEND_INTERVAL = 0.12 s, in milliseconds
SEND_INTERVAL == 120

run_rainbow_in_unison == {<<Cur, Sleep(SEND_INTERVAL, SEND_INTERVAL)>>}

run_rainbow == {<<Each, Sleep(SEND_INTERVAL, SEND_INTERVAL)>>}

run_spooky ==
    { Rep(3, <<Lit(255, 255, 255), Sleep(60, 60), Lit(0, 0, 0), Sleep(60, 60)>>),
      <<Each, Sleep(96, 96)>> }

run_party ==
    { <<Rnd, Sleep(100, 400)>>, <<Each, Sleep(150, 500)>> }
    \cup { Rep(n, <<Rnd, Sleep(50, 50), Lit(0, 0, 0), Sleep(50, 50)>>) \o <<Sleep(200, 600)>> : n \in 2..5 }

run_reactive_simulated == {<<Rnd, Sleep(SEND_INTERVAL, SEND_INTERVAL)>>}

\* the microphone loop of run_reactive
run_reactive == {<<Read, Rnd, Sleep(50, 50)>>}

run_seasonal == {<<Rnd, Sleep(360, 360)>>}

slow_pulse ==
    LET up == [j \in 1..13 |-> <<Chk, Lit(20 * (j - 1), 0, 0), Sleep(30, 30)>>]
        down == [j \in 1..13 |-> <<Chk, Lit(255 - 20 * (j - 1), 0, 0), Sleep(30, 30)>>]
        cat(f) == f[1] \o f[2] \o f[3] \o f[4] \o f[5] \o f[6] \o f[7] \o f[8] \o f[9]
                  \o f[10] \o f[11] \o f[12] \o f[13]
    IN cat(up) \o <<End>> \o cat(down) \o <<End>>

run_danger ==
    { Rep(n, <<Lit(255, 0, 0), Sleep(50, 50), Lit(0, 0, 0), Sleep(50, 50)>>) \o <<Sleep(300, 800)>> : n \in 3..8 }
    \cup { slow_pulse }
    \cup { Rep(n, <<Rnd, Sleep(20, 100)>>) : n \in 5..15 }

run_lightning ==
    { <<Lit(255, 255, 255), Sleep(30, 80), Lit(30, 30, 50)>>,
      Rep(2, <<Lit(255, 255, 255), Sleep(20, 50), Lit(30, 30, 50), Sleep(100, 200)>>),
      Rep(3, <<Rnd, Sleep(20, 40), Lit(30, 30, 50), Sleep(50, 150)>>),
      <<Rnd, Sleep(2 * SEND_INTERVAL, 2 * SEND_INTERVAL)>> }

run_waterfall == {<<Each, Sleep(96, 96)>>}

run_fungi == {<<Each, Sleep(SEND_INTERVAL, SEND_INTERVAL)>>}

\* the bodies main() can hand to threading.Thread, by effect name
Continuous ==
    {"rainbow_in_unison", "rainbow", "spooky", "party", "reactive", "seasonal",
     "danger", "lightning", "waterfall", "fungi"}

Body(eff) ==
    CASE eff = "rainbow_in_unison" -> run_rainbow_in_unison
      [] eff = "rainbow" -> run_rainbow
      [] eff = "spooky" -> run_spooky
      [] eff = "party" -> run_party
      [] eff = "reactive" -> run_reactive
      [] eff = "reactive_simulated" -> run_reactive_simulated
      [] eff = "seasonal" -> run_seasonal
      [] eff = "danger" -> run_danger
      [] eff = "lightning" -> run_lightning
      [] eff = "waterfall" -> run_waterfall
      [] OTHER -> run_fungi

\* what a thread does before its while-loop: run_reactive either runs its
\* microphone loop, or falls back to run_reactive_simulated (after time.sleep(2)
\* when the import fails, at once when the audio device cannot be opened)
Prologue(eff) ==
    IF eff = "reactive" THEN {<<>>, <<Call>>, <<Sleep(2000, 2000), Call>>} ELSE {<<>>}

(* ------------------------------------------------------------- variables *)
VARIABLES
    mpc,            \* where main() is
    midx,           \* index of the next address in a pass run on the control thread
    stop_event,     \* threading.Event shared by main() and every effect
    effect_thread,  \* the Thread main() tracks (0 = None)
    discovered,     \* keys of the DeviceTable
    cache,          \* the cache file
    ips,            \* reference to the candidate list
    selected,       \* reference to the selection list
    heap,           \* list objects: reference -> sequence of addresses
    thr,            \* the effect threads
    stopped,        \* threads for which the stop step of main() has returned
    cnt,            \* commands handed to sendto, per address (where commands are counted)
    plog,           \* the calls of set_color_rgb of the current pass (where counted)
    slept,          \* sleeps a counted effect went through with the signal set
    scan            \* state of one scan_ip_range call

vars == <<mpc, midx, stop_event, effect_thread, discovered, cache, ips, selected,
          heap, thr, stopped, cnt, plog, slept, scan>>

mainVars == <<mpc, midx, stop_event, effect_thread, discovered, cache, ips, selected, heap>>
obsVars == <<cnt, plog, slept>>

(* ------------------------------------------------------------------ heap *)
\* references held by a name of main() or by the arguments of a running thread
ThreadRefs(th) == {th[t].ips : t \in {u \in Tids : th[u].st = "run"}}

\* variant: a new list is written over the lowest reference
Fresh_lowest(live) == CHOOSE r \in Refs : \A q \in Refs : r <= q
\* the lowest reference no one holds (a new list object)
Fresh(live) == CHOOSE r \in Refs \ live : \A q \in Refs \ live : r <= q

\* objects no one references are reclaimed
Collect(h, live) == [r \in Refs |-> IF r \in live THEN h[r] ELSE <<>>]

\* The number of a reference carries no meaning: once main() has bound ips to
\* the list at i and selected to the list at s, the lists that no thread holds
\* take the lowest numbers (threads keep theirs), and the rest is reclaimed
Place(h, keep, i, s) ==
    LET ni == IF i \in keep THEN i ELSE Fresh(keep)
        ns == IF s = i THEN ni ELSE IF s \in keep THEN s ELSE Fresh(keep \cup {ni})
    IN [ heap |-> [r \in Refs |-> IF r = ni THEN h[i]
                                  ELSE IF r = ns THEN h[s]
                                  ELSE IF r \in keep THEN h[r]
                                  ELSE <<>>],
         ips |-> ni,
         selected |-> ns ]

(* ----------------------------------------------------------------- cache *)
\* What wiz_bulb_cache.json can be: no file, a file that cannot be read or is no
\* JSON text, a JSON value that is no object (a list, a number, null), or an
\* object with the addresses keys
NoFile == [form |-> "missing", keys |-> {}]
Stores ==
    {[form |-> f, keys |-> {}] : f \in {"missing", "unreadable", "other"}}
    \cup {[form |-> "dict", keys |-> K] : K \in SUBSET Hosts}

\* variant: a file that is missing or cannot be read is an error of the caller
load_cache_strict(store) ==
    [ raised |-> store.form \in {"missing", "unreadable"},
      none |-> ~(store.form = "dict" /\ store.keys # {}),
      keys |-> IF store.form = "dict" THEN store.keys ELSE {} ]
\* load_cache(): the table of the file when it holds a non-empty object, None
\* otherwise; nothing is raised
load_cache(store) ==
    [ raised |-> FALSE,
      none |-> ~(store.form = "dict" /\ store.keys # {}),
      keys |-> IF store.form = "dict" THEN store.keys ELSE {} ]

\* save_cache(discovered): the file after json.dump
save_cache(table) == [form |-> "dict", keys |-> table]

(* ---------------------------------------------------------------- sender *)
\* what can happen inside send_udp: everything works, sendto raises, close
\* raises, or socket.socket() itself raises
SendOutcomes == {"ok", "sendto_error", "close_error", "socket_error"}

\* send_udp: sendto and close failures are swallowed; the socket is created
\* outside the try block, so its failure propagates to the caller
\* variant: a failing sendto is raised as well
send_udp_strict(outcome) ==
    [ raised |-> outcome \in {"socket_error", "sendto_error"},
      sendto_called |-> outcome # "socket_error" ]
send_udp(outcome) ==
    [ raised |-> outcome = "socket_error",
      sendto_called |-> outcome # "socket_error" ]

(* --------------------------------------------------------------- threads *)
NoThread ==
    [st |-> "new", eff |-> "", ips |-> 0, todo |-> <<>>, i |-> 0, hue |-> 0,
     rgb |-> <<0, 0, 0>>, iter |-> 0, how |-> ""]

\* threading.Thread(target=run_<eff>, args=(selected, stop_event)) and start()
Started(eff, ref, pro) == [NoThread EXCEPT !.st = "run", !.eff = eff, !.ips = ref, !.todo = pro]

\* the thread has left its target function: its arguments are released
Ended(th, how) == [NoThread EXCEPT !.st = "dead", !.eff = th.eff, !.how = how]

RECURSIVE Strip(_)
\* the end of a for-loop takes no step of its own
Strip(todo) == IF todo # <<>> /\ Head(todo).op = "end" THEN Strip(Tail(todo)) ELSE todo

RECURSIVE AfterBreak(_)
\* break: leave the innermost for-loop
AfterBreak(todo) ==
    IF todo = <<>> THEN <<>>
    ELSE IF Head(todo).op = "end" THEN Tail(todo)
    ELSE AfterBreak(Tail(todo))

\* leave the thread function (stop observed, exception, or break out of while)
ThreadExit(t, how) ==
    LET th2 == [thr EXCEPT ![t] = Ended(thr[t], how)]
    IN /\ thr' = th2
       /\ heap' = Collect(heap, {ips, selected} \cup ThreadRefs(th2))

\* the check at the top of the while-loop: "if stop_event and stop_event.is_set(): break";
\* otherwise the iteration's colour is computed and its body begins
ThreadCheck(t, detail) ==
    /\ mpc \notin {"done", "raised"}
    /\ thr[t].st = "run"
    /\ thr[t].todo = <<>>
    /\ IF stop_event
       THEN /\ ThreadExit(t, "stop")
            /\ UNCHANGED obsVars
       ELSE /\ detail => thr[t].iter < MaxIter
            /\ \E body \in Body(thr[t].eff) :
                 thr' = [thr EXCEPT ![t].todo = body,
                                    ![t].i = 0,
                                    ![t].iter = IF detail THEN @ + 1 ELSE @,
                                    ![t].rgb = IF detail /\ thr[t].eff = "rainbow_in_unison"
                                               THEN hsv_to_rgb_255(thr[t].hue) ELSE @]
            /\ UNCHANGED <<heap, obsVars>>
    /\ UNCHANGED <<mpc, midx, stop_event, effect_thread, discovered, cache, ips, selected, stopped, scan>>

\* "for ip in ips": the element the list iterator yields after i elements
\* variant: the list is walked from its end
NextAddr_reversed(list, i) == list[Len(list) - i]
NextAddr(list, i) == list[i + 1]

\* the list iterator is exhausted after i elements
\* variant: the pass stops one element short
PassOver_short(list, i) == i >= Len(list) - 1
PassOver(list, i) == i >= Len(list)

\* the (r, g, b) handed to set_color_rgb: a literal, the colour computed at the
\* top of the iteration, one random colour per pass, or one per device
PassColour(o, th, draw) ==
    CASE o.k = "lit" -> o.v
      [] o.k = "cur" -> th.rgb
      [] o.k = "rnd" -> IF th.i = 0 THEN draw ELSE th.rgb
      [] OTHER -> draw

\* the log of the current pass after one more call of set_color_rgb
Logged(log, first, entry) == IF first THEN <<entry>> ELSE Append(log, entry)

\* one turn of "for ip in ips: set_color_rgb(ip, r, g, b)" in an effect thread
ThreadSend(t, detail) ==
    /\ mpc \notin {"done", "raised"}
    /\ thr[t].st = "run"
    /\ thr[t].todo # <<>>
    /\ Head(thr[t].todo).op = "pass"
    /\ IF PassOver(heap[thr[t].ips], thr[t].i)
       THEN \* the list has no further element: the for-loop ends
            /\ thr' = [thr EXCEPT ![t].todo = Strip(Tail(@)), ![t].i = 0]
            /\ UNCHANGED <<heap, obsVars>>
       ELSE \E outcome \in SendOutcomes, draw \in RandomRGB :
              LET o == Head(thr[t].todo)
                  res == send_udp(outcome)
                  ip == NextAddr(heap[thr[t].ips], thr[t].i)
                  last == PassOver(heap[thr[t].ips], thr[t].i + 1)
                  col == PassColour(o, thr[t], draw)
              IN /\ IF res.raised
                    THEN \* run_reactive catches it in its loop and breaks; elsewhere it ends the thread
                         ThreadExit(t, IF thr[t].eff = "reactive" THEN "break" ELSE "raised")
                    ELSE /\ thr' = [thr EXCEPT ![t].todo = IF last THEN Strip(Tail(@)) ELSE @,
                                               ![t].i = IF last THEN 0 ELSE @ + 1,
                                               ![t].rgb = IF detail THEN col ELSE @]
                         /\ UNCHANGED heap
                 /\ IF detail
                    THEN /\ cnt' = IF res.sendto_called THEN [cnt EXCEPT ![ip] = @ + 1] ELSE cnt
                         /\ plog' = Logged(plog, thr[t].i = 0,
                                           [to |-> ip, at |-> thr[t].i + 1, rgb |-> col, res |-> outcome])
                    ELSE UNCHANGED <<cnt, plog>>
                 /\ UNCHANGED slept
    /\ UNCHANGED <<mpc, midx, stop_event, effect_thread, discovered, cache, ips, selected, stopped, scan>>

\* time.sleep(...); run_rainbow_in_unison advances its hue just before it
ThreadSleep(t, detail) ==
    /\ mpc \notin {"done", "raised"}
    /\ thr[t].st = "run"
    /\ thr[t].todo # <<>>
    /\ Head(thr[t].todo).op = "sleep"
    /\ thr' = [thr EXCEPT ![t].todo = Strip(Tail(@)),
                          ![t].hue = IF detail /\ thr[t].eff = "rainbow_in_unison"
                                     THEN (@ + 3) % 360 ELSE @]
    /\ slept' = IF detail /\ stop_event THEN slept + 1 ELSE slept
    /\ UNCHANGED <<mainVars, stopped, cnt, plog, scan>>

\* the check inside the for-loops of run_danger's slow pulse
ThreadInnerCheck(t) ==
    /\ mpc \notin {"done", "raised"}
    /\ thr[t].st = "run"
    /\ thr[t].todo # <<>>
    /\ Head(thr[t].todo).op = "chk"
    /\ thr' = [thr EXCEPT ![t].todo = IF stop_event THEN Strip(AfterBreak(@)) ELSE Strip(Tail(@))]
    /\ UNCHANGED <<mainVars, stopped, obsVars, scan>>

\* stream.read in run_reactive: an exception prints, breaks out of the while-loop
\* and the function returns
ThreadRead(t) ==
    /\ mpc \notin {"done", "raised"}
    /\ thr[t].st = "run"
    /\ thr[t].todo # <<>>
    /\ Head(thr[t].todo).op = "read"
    /\ \E ok \in BOOLEAN :
         IF ok
         THEN /\ thr' = [thr EXCEPT ![t].todo = Strip(Tail(@))]
              /\ UNCHANGED heap
         ELSE ThreadExit(t, "break")
    /\ UNCHANGED <<mpc, midx, stop_event, effect_thread, discovered, cache, ips, selected, stopped, obsVars, scan>>

\* run_reactive hands over to run_reactive_simulated(ips, stop_event, duration)
ThreadCall(t) ==
    /\ mpc \notin {"done", "raised"}
    /\ thr[t].st = "run"
    /\ thr[t].todo # <<>>
    /\ Head(thr[t].todo).op = "call"
    /\ thr' = [thr EXCEPT ![t].todo = Strip(Tail(@)), ![t].eff = "reactive_simulated"]
    /\ UNCHANGED <<mainVars, stopped, obsVars, scan>>

(* ------------------------------------------------------------------ main *)
\* prompt_user_selection(lights, info): [] without candidates; the candidate list
\* itself for "", "a", "all"; otherwise a new list of the valid indices typed
prompt_user_selection(lights, inp) ==
    IF lights = <<>> THEN [alias |-> "new", list |-> <<>>]
    ELSE IF inp.kind \in {"enter", "all"} THEN [alias |-> "lights", list |-> lights]
    ELSE [alias |-> "new", list |-> chosen(lights, inp.chunks)]

\* variant: what was typed is returned even when nothing of it is valid
change_bulb_selection_strict(lights, current, inp) ==
    IF inp.kind = "enter" THEN [alias |-> "current", list |-> current]
    ELSE IF inp.kind = "all" THEN [alias |-> "lights", list |-> lights]
    ELSE [alias |-> "new", list |-> chosen(lights, inp.chunks)]
\* change_bulb_selection(lights, info, current): the current list for "", the
\* candidate list for "a"/"all", otherwise the chosen list, or the current one
\* when nothing valid was typed
change_bulb_selection(lights, current, inp) ==
    IF inp.kind = "enter" THEN [alias |-> "current", list |-> current]
    ELSE IF inp.kind = "all" THEN [alias |-> "lights", list |-> lights]
    ELSE IF chosen(lights, inp.chunks) # <<>>
         THEN [alias |-> "new", list |-> chosen(lights, inp.chunks)]
         ELSE [alias |-> "current", list |-> current]

\* selected = [ip for ip in selected if ip in ips]: a new list object at reference b
\* variant: the selection is copied without the filter
filter_selection_none(h, sel, b, keys) ==
    [heap |-> [h EXCEPT ![b] = h[sel]], ref |-> b]
\* variant: the filter rewrites the selection list in place
filter_selection_inplace(h, sel, b, keys) ==
    [heap |-> [h EXCEPT ![sel] = Keep(h[sel], keys)], ref |-> sel]
filter_selection(h, sel, b, keys) ==
    [heap |-> [h EXCEPT ![b] = Keep(h[sel], keys)], ref |-> b]

\* variant: main() goes on into the loop whatever was selected
leave_never(list) == "top"
\* "if not selected: return": main() returns on an empty selection and goes to
\* the top of the loop otherwise
leave_if_empty(list) == IF list = <<>> THEN "done" ELSE "top"

\* lines 16-24: discovered = load_cache(); "if discovered:" decides about the scan
MainStartup ==
    /\ mpc = "start"
    /\ LET c == load_cache(cache)
       IN IF c.raised
          THEN /\ mpc' = "raised"
               /\ UNCHANGED discovered
          ELSE IF ~c.none /\ c.keys # {}
          THEN /\ mpc' = "select"
               /\ discovered' = c.keys
          ELSE /\ mpc' = "scan"
               /\ UNCHANGED discovered
    /\ UNCHANGED <<midx, stop_event, effect_thread, cache, ips, selected, heap, thr, stopped, obsVars, scan>>

\* lines 25-29: the startup scan; its table is saved when it is not empty
MainStartupScan ==
    /\ mpc = "scan"
    /\ \E found \in SUBSET Hosts :
         /\ discovered' = found
         /\ cache' = IF found # {} THEN save_cache(found) ELSE cache
    /\ mpc' = "select"
    /\ UNCHANGED <<midx, stop_event, effect_thread, ips, selected, heap, thr, stopped, obsVars, scan>>

\* lines 31-35: the candidate list and the first selection
MainSelect ==
    /\ mpc = "select"
    /\ \E inp \in SelInputs :
         LET a == Fresh({})
             b == Fresh({a})
             sel == prompt_user_selection(sorted(discovered), inp)
             s2 == IF sel.alias = "lights" THEN a ELSE b
             h2 == [[r \in Refs |-> <<>>] EXCEPT ![a] = sorted(discovered), ![s2] = sel.list]
         IN /\ ips' = a
            /\ selected' = s2
            /\ heap' = Collect(h2, {a, s2})
            /\ mpc' = leave_if_empty(sel.list)
    /\ UNCHANGED <<midx, stop_event, effect_thread, discovered, cache, thr, stopped, obsVars, scan>>

\* variant: a join without a timeout
join_untimed(alive) == IF alive THEN {} ELSE {"exited"}
\* what effect_thread.join(timeout=2.0) can do now: return because the thread has
\* ended, or return because the timeout has run out although it has not
join(alive) == IF alive THEN {"timeout"} ELSE {"exited"}

\* variant: the stop step is taken whenever a thread was started
is_alive_started(et, th) == et # 0
\* "effect_thread and effect_thread.is_alive()"
is_alive(et, th) == et # 0 /\ th[et].st = "run"

\* lines 43-44: "if effect_thread and effect_thread.is_alive(): stop_event.set()"
MainTop ==
    /\ mpc = "top"
    /\ IF is_alive(effect_thread, thr)
       THEN /\ stop_event' = TRUE
            /\ mpc' = "join"
       ELSE /\ mpc' = "clear"
            /\ UNCHANGED stop_event
    /\ UNCHANGED <<midx, effect_thread, discovered, cache, ips, selected, heap, thr, stopped, obsVars, scan>>

\* line 45: effect_thread.join(timeout=2.0) returns
MainJoin ==
    /\ mpc = "join"
    /\ \E r \in join(thr[effect_thread].st = "run") :
         /\ mpc' = "clear"
         /\ stopped' = stopped \cup {effect_thread}
    /\ UNCHANGED <<midx, stop_event, effect_thread, discovered, cache, ips, selected, heap, thr, obsVars, scan>>

\* variant: the signal is not cleared before the next request
MainClear_skipped ==
    /\ mpc = "clear"
    /\ mpc' = "choose"
    /\ UNCHANGED <<midx, stop_event, effect_thread, discovered, cache, ips, selected, heap, thr, stopped, obsVars, scan>>
\* line 48: stop_event.clear()
MainClear ==
    /\ mpc = "clear"
    /\ stop_event' = FALSE
    /\ mpc' = "choose"
    /\ UNCHANGED <<midx, effect_thread, discovered, cache, ips, selected, heap, thr, stopped, obsVars, scan>>

\* lines 54-70: the rescan request
MainRescan ==
    /\ mpc = "choose"
    /\ \E found \in SUBSET Hosts, inp \in SelInputs :
         LET keep == ThreadRefs(thr)
             \* the old selection is still bound while the new lists are built
             a == Fresh(keep \cup {selected})
             b == Fresh(keep \cup {selected, a})
             lights == sorted(found)
             sel == prompt_user_selection(lights, inp)
         IN \E f \in {filter_selection([heap EXCEPT ![a] = lights], selected, b, Range(lights))} :
              LET s2 == IF f.heap[f.ref] # <<>> THEN f.ref
                        ELSE IF sel.alias = "lights" THEN a ELSE b
                  h2 == IF f.heap[f.ref] # <<>> THEN f.heap
                        ELSE [f.heap EXCEPT ![s2] = sel.list]
              IN \E p \in {Place(h2, keep, a, s2)} :
                   /\ discovered' = found
                   /\ cache' = IF found # {} THEN save_cache(found) ELSE cache
                   /\ ips' = p.ips
                   /\ selected' = p.selected
                   /\ heap' = p.heap
                   /\ mpc' = leave_if_empty(p.heap[p.selected])
    /\ UNCHANGED <<midx, stop_event, effect_thread, thr, stopped, obsVars, scan>>

\* lines 73-78: the change_bulbs request, answered with one of inputs
MainChangeBulbs(inputs) ==
    /\ mpc = "choose"
    /\ \E inp \in inputs :
         LET keep == ThreadRefs(thr)
             sel == change_bulb_selection(heap[ips], heap[selected], inp)
             s2 == CASE sel.alias = "current" -> selected
                     [] sel.alias = "lights" -> ips
                     [] OTHER -> Fresh(keep \cup {ips})
             h2 == [heap EXCEPT ![s2] = sel.list]
         IN /\ selected' = s2
            /\ heap' = Collect(h2, {ips, s2} \cup keep)
            /\ mpc' = leave_if_empty(sel.list)
    /\ UNCHANGED <<midx, stop_event, effect_thread, discovered, cache, ips, thr, stopped, obsVars, scan>>

\* lines 81-83 and 91-93: a one-shot request; run_white / run_rgba begin their pass
MainOneShot ==
    /\ mpc = "choose"
    /\ \E effect \in {"white", "rgba"} :
         /\ mpc' = effect
         /\ midx' = 1
    /\ UNCHANGED <<stop_event, effect_thread, discovered, cache, ips, selected, heap, thr, stopped, obsVars, scan>>

\* where main() goes when a pass on the control thread is over
AfterPass(at) ==
    CASE at = "synth_pass" -> "synth"
      [] at = "synth_win_pass" -> "synth_win"
      [] OTHER -> "input"

\* variant: the control thread also runs a pass while it waits beside an effect
ControlPass_waiting == {"white", "rgba", "synth_pass", "synth_win_pass", "wait"}
\* where main() is while run_white, run_rgba or run_synth, which it calls itself,
\* walk the selection
ControlPass == {"white", "rgba", "synth_pass", "synth_win_pass"}

\* one turn of "for ip in ips: set_color_rgb(...)" in run_white, run_rgba or run_synth
MainSend(detail) ==
    /\ mpc \in ControlPass
    /\ IF PassOver(heap[selected], midx - 1)
       THEN /\ mpc' = AfterPass(mpc)
            /\ UNCHANGED <<midx, obsVars>>
       ELSE \E outcome \in SendOutcomes :
              LET res == send_udp(outcome)
                  ip == NextAddr(heap[selected], midx - 1)
              IN /\ IF res.raised
                    THEN /\ mpc' = "raised"
                         /\ UNCHANGED midx
                    ELSE /\ mpc' = IF PassOver(heap[selected], midx) THEN AfterPass(mpc) ELSE mpc
                         /\ midx' = midx + 1
                 /\ IF detail
                    THEN /\ cnt' = IF res.sendto_called THEN [cnt EXCEPT ![ip] = @ + 1] ELSE cnt
                         /\ plog' = Logged(plog, midx = 1,
                                           [to |-> ip, at |-> midx, rgb |-> <<>>, res |-> outcome])
                    ELSE UNCHANGED <<cnt, plog>>
                 /\ UNCHANGED slept
    /\ UNCHANGED <<stop_event, effect_thread, discovered, cache, ips, selected, heap, thr, stopped, scan>>

\* lines 85-89 and 95-99: input() after a one-shot; Ctrl+C leaves the loop
MainInput ==
    /\ mpc = "input"
    /\ \E key \in {"enter", "ctrl_c"} :
         mpc' = IF key = "enter" THEN "top" ELSE "done"
    /\ UNCHANGED <<midx, stop_event, effect_thread, discovered, cache, ips, selected, heap, thr, stopped, obsVars, scan>>

\* lines 101-103: the synth request; run_synth enters its loop (sys.platform is
\* not 'win32' in a session)
MainSynth ==
    /\ mpc = "choose"
    /\ mpc' = "synth"
    /\ UNCHANGED <<midx, stop_event, effect_thread, discovered, cache, ips, selected, heap, thr, stopped, obsVars, scan>>

\* lines 101-103 where sys.platform is 'win32': run_synth enters its input() loop
MainSynthWin ==
    /\ mpc = "choose"
    /\ mpc' = "synth_win"
    /\ UNCHANGED <<midx, stop_event, effect_thread, discovered, cache, ips, selected, heap, thr, stopped, obsVars, scan>>

\* variant: "if stop_event:", which holds of every Event object
SynthPoll_truthy ==
    /\ mpc \in {"synth", "synth_win"}
    /\ mpc' = "top"
    /\ UNCHANGED <<midx, stop_event, effect_thread, discovered, cache, ips, selected, heap, thr, stopped, obsVars, scan>>
\* run_synth, top of its loop (lines 226-227 and 247-248): the stop check; then the
\* wait for a key, in select on the non-Windows path and in input() on Windows
SynthPoll ==
    /\ mpc \in {"synth", "synth_win"}
    /\ mpc' = IF stop_event THEN "top"
              ELSE IF mpc = "synth" THEN "synth_select" ELSE "synth_input"
    /\ UNCHANGED <<midx, stop_event, effect_thread, discovered, cache, ips, selected, heap, thr, stopped, obsVars, scan>>

\* variant: select without a timeout returns only when a key is waiting
select_blocking(waiting) == IF waiting THEN {"ready"} ELSE {}
\* select.select([sys.stdin], [], [], 0.05): ready at once when a key is waiting,
\* empty when the timeout has run out
select(waiting) == IF waiting THEN {"ready"} ELSE {"timeout"}

\* lines 230-240: select returns; a key that is waiting is read: 'q' leaves the
\* loop, a digit flashes its colour, any other key is ignored
SynthSelect(waiting) ==
    /\ mpc = "synth_select"
    /\ \E r \in select(waiting) :
         IF r = "timeout"
         THEN /\ mpc' = "synth"
              /\ UNCHANGED midx
         ELSE \E key \in {"q", "digit", "other"} :
                /\ mpc' = CASE key = "q" -> "top"
                            [] key = "digit" -> "synth_pass"
                            [] OTHER -> "synth"
                /\ midx' = 1
    /\ UNCHANGED <<stop_event, effect_thread, discovered, cache, ips, selected, heap, thr, stopped, obsVars, scan>>

\* lines 249-259: input() returns with a line, or raises EOFError or
\* KeyboardInterrupt, which leave the loop as 'q' does
SynthInput ==
    /\ mpc = "synth_input"
    /\ \E key \in {"q", "digit", "other", "eof"} :
         /\ mpc' = CASE key \in {"q", "eof"} -> "top"
                     [] key = "digit" -> "synth_win_pass"
                     [] OTHER -> "synth_win"
         /\ midx' = 1
    /\ UNCHANGED <<stop_event, effect_thread, discovered, cache, ips, selected, heap, thr, stopped, obsVars, scan>>

\* lines 106-130: a continuous request: the thread is created with the list that
\* selected names and the shared event, and started
MainStart(menu) ==
    /\ mpc = "choose"
    /\ \E effect \in menu, t \in Tids :
         /\ thr[t].st = "new"
         /\ \A u \in Tids : u < t => thr[u].st # "new"
         /\ \E pro \in Prologue(effect) :
              thr' = [thr EXCEPT ![t] = Started(effect, selected, pro)]
         /\ effect_thread' = t
         /\ mpc' = "wait"
    /\ UNCHANGED <<midx, stop_event, discovered, cache, ips, selected, heap, stopped, obsVars, scan>>

\* lines 133-137: input() while the effect runs; Ctrl+C sets the stop signal
MainWait ==
    /\ mpc = "wait"
    /\ \E key \in {"enter", "ctrl_c"} :
         IF key = "enter"
         THEN /\ mpc' = "top"
              /\ UNCHANGED stop_event
         ELSE /\ mpc' = "exit_join"
              /\ stop_event' = TRUE
    /\ UNCHANGED <<midx, effect_thread, discovered, cache, ips, selected, heap, thr, stopped, obsVars, scan>>

\* lines 138-140: the join on the Ctrl+C path, then break
MainExitJoin ==
    /\ mpc = "exit_join"
    /\ \E r \in join(thr[effect_thread].st = "run") :
         /\ mpc' = "done"
         /\ stopped' = stopped \cup {effect_thread}
    /\ UNCHANGED <<midx, stop_event, effect_thread, discovered, cache, ips, selected, heap, thr, obsVars, scan>>

(* ------------------------------------------------------ the session, Spec *)
NoScan == [phase |-> "idle"]

\* the process starts: nothing runs yet; the cache file holds some table or none
Init ==
    /\ mpc = "start"
    /\ midx = 1
    /\ stop_event = FALSE
    /\ effect_thread = 0
    /\ discovered = {}
    /\ cache \in Stores
    /\ ips = 0
    /\ selected = 0
    /\ heap = [r \in Refs |-> <<>>]
    /\ thr = [t \in Tids |-> NoThread]
    /\ stopped = {}
    /\ cnt = [h \in Hosts |-> 0]
    /\ plog = <<>>
    /\ slept = 0
    /\ scan = NoScan

\* the effects a session of the model can choose as background threads
SessionMenu == {"rainbow_in_unison"}

Next ==
    \/ MainStartup
    \/ MainStartupScan
    \/ MainSelect
    \/ MainTop
    \/ MainJoin
    \/ MainClear
    \/ MainRescan
    \/ MainChangeBulbs(SelInputs)
    \/ MainOneShot
    \/ MainSend(FALSE)
    \/ MainInput
    \/ MainSynth
    \/ SynthPoll
    \/ SynthSelect(TRUE)
    \/ SynthSelect(FALSE)
    \/ MainStart(SessionMenu)
    \/ MainWait
    \/ MainExitJoin
    \/ \E t \in Tids : ThreadCheck(t, FALSE)
    \/ \E t \in Tids : ThreadSend(t, FALSE)
    \/ \E t \in Tids : ThreadSleep(t, FALSE)

Spec == Init /\ [][Next]_vars

(* ------------------------------------------- one effect, observed: EffectSpec *)
\* stop_event.set() by the control thread (lines 44 and 137 of main())
SignalStop ==
    /\ ~stop_event
    /\ stop_event' = TRUE
    /\ UNCHANGED <<mpc, midx, effect_thread, discovered, cache, ips, selected, heap, thr, stopped, obsVars, scan>>

\* main() has started one effect over a selection and waits at input(); the
\* thread's commands and sleeps are counted
EffectInit ==
    /\ mpc = "wait"
    /\ midx = 1
    /\ stop_event = FALSE
    /\ effect_thread = 1
    /\ discovered = Hosts
    /\ cache = save_cache(Hosts)
    /\ ips = 1
    /\ selected = 1
    /\ \E list \in {sorted(Hosts), <<ScanStart>>} :
         heap = [r \in Refs |-> IF r = 1 THEN list ELSE <<>>]
    /\ \E effect \in Continuous :
         \E pro \in Prologue(effect) :
           thr = [t \in Tids |-> IF t = 1 THEN Started(effect, 1, pro) ELSE NoThread]
    /\ stopped = {}
    /\ cnt = [h \in Hosts |-> 0]
    /\ plog = <<>>
    /\ slept = 0
    /\ scan = NoScan

EffectNext ==
    \/ SignalStop
    \/ ThreadCheck(1, TRUE)
    \/ ThreadSend(1, TRUE)
    \/ ThreadSleep(1, TRUE)
    \/ ThreadInnerCheck(1)
    \/ ThreadRead(1)
    \/ ThreadCall(1)

EffectSpec == EffectInit /\ [][EffectNext]_vars

(* ------------------------------------- the stop step on any effect: FairStopSpec *)
\* what main() does by itself once the user has answered: lines 43-48 and 138-140
StopControl ==
    \/ MainTop
    \/ MainJoin
    \/ MainClear
    \/ MainExitJoin

\* the steps of the effect thread
StopThread ==
    \/ ThreadCheck(1, FALSE)
    \/ ThreadSend(1, FALSE)
    \/ ThreadSleep(1, FALSE)
    \/ ThreadInnerCheck(1)
    \/ ThreadRead(1)
    \/ ThreadCall(1)

StopNext ==
    \/ MainWait
    \/ StopControl
    \/ StopThread

\* one effect of any kind runs while main() waits at input(); the interpreter
\* keeps scheduling both threads; when the user answers is up to the user
FairStopSpec ==
    EffectInit /\ [][StopNext]_vars /\ WF_vars(StopControl) /\ WF_vars(StopThread)

(* ------------------------------------- one-shot dispatches, observed: DispatchSpec *)
\* main() is about to ask for the next request; no effect thread was started
DispatchInit ==
    /\ mpc = "choose"
    /\ midx = 1
    /\ stop_event = FALSE
    /\ effect_thread = 0
    /\ discovered = Hosts
    /\ cache = save_cache(Hosts)
    /\ ips = 1
    /\ \E inp \in SelInputs :
         LET sel == prompt_user_selection(sorted(Hosts), inp)
         IN /\ sel.list # <<>>
            /\ selected = IF sel.alias = "lights" THEN 1 ELSE 2
            /\ heap = [r \in Refs |-> IF r = 1 THEN sorted(Hosts)
                                      ELSE IF r = 2 /\ sel.alias # "lights" THEN sel.list
                                      ELSE <<>>]
    /\ thr = [t \in Tids |-> NoThread]
    /\ stopped = {}
    /\ cnt = [h \in Hosts |-> 0]
    /\ plog = <<>>
    /\ slept = 0
    /\ scan = NoScan

\* the session keeps counting only while few commands were sent
FewCommands == \A h \in Hosts : cnt[h] < MaxIter

DispatchNext ==
    \/ MainOneShot /\ FewCommands
    \/ MainSynth /\ FewCommands
    \/ SynthPoll
    \/ SynthSelect(TRUE) /\ FewCommands
    \/ SynthSelect(FALSE)
    \/ MainSend(TRUE)
    \/ MainInput
    \/ MainTop
    \/ MainClear

DispatchSpec == DispatchInit /\ [][DispatchNext]_vars

(* ------------------------------------- rescan and change_bulbs: SelectSpec *)
\* main() is at the menu with both devices known and a selection typed as up to
\* MaxChunks + 1 indices (in any order, repeats included), or taken whole
\* selection inputs of up to MaxChunks + 1 chunks
LongInputs ==
    {[kind |-> "enter", chunks |-> <<>>], [kind |-> "all", chunks |-> <<>>]}
    \cup {[kind |-> "list", chunks |-> c] : c \in ChunkSeqs(MaxChunks + 1) \ {<<>>}}

SelectInit ==
    /\ mpc = "choose"
    /\ midx = 1
    /\ stop_event = FALSE
    /\ effect_thread = 0
    /\ discovered = Hosts
    /\ cache = save_cache(Hosts)
    /\ ips = 1
    /\ \E inp \in LongInputs :
         LET sel == prompt_user_selection(sorted(Hosts), inp)
         IN /\ sel.list # <<>>
            /\ selected = IF sel.alias = "lights" THEN 1 ELSE 2
            /\ heap = [r \in Refs |-> IF r = 1 THEN sorted(Hosts)
                                      ELSE IF r = 2 /\ sel.alias # "lights" THEN sel.list
                                      ELSE <<>>]
    /\ thr = [t \in Tids |-> NoThread]
    /\ stopped = {}
    /\ cnt = [h \in Hosts |-> 0]
    /\ plog = <<>>
    /\ slept = 0
    /\ scan = NoScan

SelectNext ==
    \/ MainRescan
    \/ MainChangeBulbs(LongInputs)
    \/ MainOneShot /\ FewCommands
    \/ MainSend(TRUE)
    \/ MainInput
    \/ MainTop
    \/ MainClear

SelectSpec == SelectInit /\ [][SelectNext]_vars

(* ------------------------------- every kind of request, observed: RequestSpec *)
\* no continuous effect was requested yet
NoneStarted == \A t \in Tids : thr[t].st = "new"

\* a session from the menu on, with one-shot and synth requests and one continuous
\* request, in which every command handed to set_color_rgb is counted
RequestNext ==
    \/ MainTop
    \/ MainJoin
    \/ MainClear
    \/ MainOneShot /\ FewCommands
    \/ MainSend(TRUE)
    \/ MainInput
    \/ MainSynth /\ FewCommands
    \/ MainSynthWin /\ FewCommands
    \/ SynthPoll
    \/ SynthSelect(TRUE) /\ FewCommands
    \/ SynthSelect(FALSE)
    \/ SynthInput /\ FewCommands
    \/ MainStart(SessionMenu) /\ NoneStarted
    \/ MainWait
    \/ MainExitJoin
    \/ \E t \in Tids : ThreadCheck(t, TRUE)
    \/ \E t \in Tids : ThreadSend(t, TRUE)
    \/ \E t \in Tids : ThreadSleep(t, TRUE)

RequestSpec == DispatchInit /\ [][RequestNext]_vars

(* ------------------------------------------- run_synth, observed: SynthSpec *)
\* run_synth(selected, stop_event) has been called, on either platform, with an
\* event that its holder may set while run_synth runs
SynthInit ==
    /\ mpc \in {"synth", "synth_win"}
    /\ midx = 1
    /\ stop_event = FALSE
    /\ effect_thread = 0
    /\ discovered = Hosts
    /\ cache = save_cache(Hosts)
    /\ ips = 1
    /\ \E inp \in SelInputs :
         LET sel == prompt_user_selection(sorted(Hosts), inp)
         IN /\ sel.list # <<>>
            /\ selected = IF sel.alias = "lights" THEN 1 ELSE 2
            /\ heap = [r \in Refs |-> IF r = 1 THEN sorted(Hosts)
                                      ELSE IF r = 2 /\ sel.alias # "lights" THEN sel.list
                                      ELSE <<>>]
    /\ thr = [t \in Tids |-> NoThread]
    /\ stopped = {}
    /\ cnt = [h \in Hosts |-> 0]
    /\ plog = <<>>
    /\ slept = 0
    /\ scan = NoScan

\* what run_synth does by itself: the check, the return of an idle select, a pass
SynthStep ==
    \/ SynthPoll
    \/ SynthSelect(FALSE)
    \/ MainSend(TRUE)

SynthNext ==
    \/ SynthStep
    \/ SignalStop
    \/ SynthSelect(TRUE) /\ FewCommands
    \/ SynthInput /\ FewCommands

SynthSpec == SynthInit /\ [][SynthNext]_vars

\* run_synth keeps running; whether a key is typed or the signal is set is up to
\* the user and the holder of the event
FairSynthSpec == SynthSpec /\ WF_vars(SynthStep)

(* ---------------------------------------- set_color_rgb, observed: PilotSpec *)
\* integer arguments at and beyond the ends of the ranges of the wire format
ChannelArgs == {-1, 0, 255, 256}
DimmingArgs == {-1, 0, 100, 101}

\* the "params" of the payload set_color_rgb builds (network.py:111): every
\* argument goes into the dictionary as it was passed
set_color_rgb(r, g, b, transition, dimming) ==
    [r |-> r, g |-> g, b |-> b, transition |-> transition, dimming |-> dimming]

\* no call of set_color_rgb was made yet
PilotInit ==
    /\ mpc = "pilot"
    /\ midx = 1
    /\ stop_event = FALSE
    /\ effect_thread = 0
    /\ discovered = Hosts
    /\ cache = save_cache(Hosts)
    /\ ips = 1
    /\ selected = 1
    /\ heap = [r \in Refs |-> IF r = 1 THEN sorted(Hosts) ELSE <<>>]
    /\ thr = [t \in Tids |-> NoThread]
    /\ stopped = {}
    /\ cnt = [h \in Hosts |-> 0]
    /\ plog = <<>>
    /\ slept = 0
    /\ scan = NoScan

\* set_color_rgb(ip, r, g, b, 0, dimming) is called, as run_rgba calls it, and
\* hands its payload to send_udp; the log keeps the last call
PilotCall ==
    /\ mpc = "pilot"
    /\ \E ip \in Hosts, r \in ChannelArgs, g \in ChannelArgs, b \in ChannelArgs,
          dimming \in DimmingArgs, outcome \in SendOutcomes :
         plog' = <<[ to |-> ip,
                     args |-> <<r, g, b, dimming>>,
                     params |-> set_color_rgb(r, g, b, 0, dimming),
                     sent |-> send_udp(outcome).sendto_called ]>>
    /\ UNCHANGED <<mainVars, thr, stopped, cnt, slept, scan>>

PilotSpec == PilotInit /\ [][PilotCall]_vars

(* ------------------------------------------ colour functions, observed: ColourSpec *)
\* saturation and value are called at the fractions j / Grain, j in 0..Grain
Grain == 4

\* int(c * 255) for the channel c = num / den: the whole part of the product; where
\* the exact product is a whole number, double rounding may leave the computed
\* one just below it, and int() then yields one less
int_255(num, den) ==
    LET x == num * 255
    IN IF x % den = 0 /\ x > 0 THEN {x \div den, x \div den - 1} ELSE {x \div den}

\* hsv_to_rgb_255(h_deg, s / 100, v / 100): h = (h_deg % 360) / 360.0, then
\* colorsys.hsv_to_rgb (v, v, v for s = 0; otherwise i = int(h * 6), f = h * 6 - i,
\* p = v(1 - s), q = v(1 - s f), t = v(1 - s(1 - f)) and the sextant i % 6 picks the
\* channels), each channel through int(c * 255).  Channels are numerators over den.
hsv_to_rgb_255_sv(h_deg, s, v) ==
    LET h == h_deg % 360
        i == (h \div 60) % 6
        m == h % 60
        den == 60 * 100 * 100
        vv == v * 60 * 100
        p == v * (100 - s) * 60
        q == v * (60 * 100 - s * m)
        t == v * (60 * 100 - s * (60 - m))
        c == IF s = 0 THEN <<vv, vv, vv>>
             ELSE CASE i = 0 -> <<vv, t, p>>
                    [] i = 1 -> <<q, vv, p>>
                    [] i = 2 -> <<p, vv, t>>
                    [] i = 3 -> <<p, q, vv>>
                    [] i = 4 -> <<t, p, vv>>
                    [] OTHER -> <<vv, p, q>>
    IN {<<r, g, b>> : r \in int_255(c[1], den), g \in int_255(c[2], den), b \in int_255(c[3], den)}

\* The fitted curves of kelvin_to_rgb_255 are monotonic in the temperature, so the
\* whole part of each is a staircase over the integer kelvins.  For each curve:
\* the kelvins at which the whole part of the double-precision value moves by one
\*   red         329.698727446 * ((temp - 60) ** -0.1332047592), 6601..40000, falling from 259
\*   green_low   99.4708025861 * log(temp) - 161.1195681661, 1000..6600, rising from 67
\*   green_high  288.1221695283 * ((temp - 60) ** -0.0755148492), 6601..40000, falling from 251
\*   blue        138.5177312231 * log(temp - 10) - 305.0447927307, 1901..6599, rising from -1
KelvinSteps ==
    [
      red |->
        <<
          6613, 6631, 6649, 6669, 6689, 6709, 6730, 6753, 6775, 6799, 6823, 6848,
          6875, 6902, 6930, 6959, 6989, 7020, 7052, 7085, 7120, 7155, 7193, 7231,
          7271, 7312, 7355, 7400, 7446, 7493, 7543, 7595, 7648, 7704, 7761, 7821,
          7883, 7948, 8015, 8085, 8157, 8233, 8311, 8393, 8478, 8566, 8658, 8753,
          8853, 8956, 9064, 9176, 9293, 9415, 9542, 9675, 9813, 9957, 10107, 10264,
          10427, 10598, 10776, 10962, 11156, 11359, 11571, 11792, 12024, 12266, 12519, 12784,
          13061, 13351, 13655, 13973, 14306, 14654, 15020, 15403, 15804, 16226, 16667, 17131,
          17617, 18128, 18664, 19228, 19819, 20441, 21095, 21783, 22507, 23268, 24069, 24913,
          25802, 26738, 27724, 28765, 29862, 31019, 32241, 33530, 34892, 36330, 37850, 39458 >>,
      green_low |->
        <<
          1001, 1011, 1022, 1032, 1042, 1053, 1064, 1074, 1085, 1096, 1107, 1118,
          1130, 1141, 1153, 1164, 1176, 1188, 1200, 1212, 1224, 1237, 1249, 1262,
          1274, 1287, 1300, 1313, 1327, 1340, 1354, 1367, 1381, 1395, 1409, 1423,
          1438, 1452, 1467, 1482, 1497, 1512, 1527, 1543, 1558, 1574, 1590, 1606,
          1622, 1638, 1655, 1672, 1689, 1706, 1723, 1740, 1758, 1776, 1793, 1812,
          1830, 1848, 1867, 1886, 1905, 1924, 1944, 1963, 1983, 2003, 2023, 2044,
          2064, 2085, 2106, 2128, 2149, 2171, 2193, 2215, 2237, 2260, 2283, 2306,
          2329, 2353, 2376, 2400, 2425, 2449, 2474, 2499, 2524, 2550, 2575, 2601,
          2628, 2654, 2681, 2708, 2735, 2763, 2791, 2819, 2848, 2876, 2906, 2935,
          2965, 2994, 3025, 3055, 3086, 3117, 3149, 3181, 3213, 3245, 3278, 3311,
          3345, 3378, 3412, 3447, 3482, 3517, 3552, 3588, 3625, 3661, 3698, 3736,
          3773, 3811, 3850, 3889, 3928, 3968, 4008, 4048, 4089, 4131, 4172, 4214,
          4257, 4300, 4344, 4387, 4432, 4476, 4522, 4567, 4614, 4660, 4707, 4755,
          4803, 4851, 4900, 4950, 5000, 5050, 5101, 5153, 5205, 5258, 5311, 5364,
          5419, 5473, 5529, 5584, 5641, 5698, 5755, 5814, 5872, 5932, 5992, 6052,
          6113, 6175, 6237, 6300, 6364, 6428, 6493, 6559 >>,
      green_high |->
        <<
          6622, 6655, 6691, 6729, 6769, 6811, 6856, 6904, 6954, 7008, 7065, 7125,
          7189, 7257, 7329, 7405, 7487, 7573, 7665, 7762, 7866, 7976, 8094, 8219,
          8352, 8493, 8644, 8804, 8976, 9158, 9353, 9560, 9781, 10018, 10270, 10539,
          10827, 11134, 11463, 11814, 12190, 12591, 13021, 13482, 13975, 14503, 15069, 15676,
          16326, 17024, 17773, 18577, 19440, 20367, 21363, 22434, 23586, 24825, 26158, 27594,
          29140, 30805, 32601, 34537, 36625, 38879 >>,
      blue |->
        <<
          1905, 1912, 1918, 1925, 1931, 1938, 1945, 1952, 1959, 1966, 1973, 1980,
          1987, 1994, 2001, 2008, 2016, 2023, 2031, 2038, 2045, 2053, 2061, 2068,
          2076, 2084, 2092, 2100, 2108, 2116, 2124, 2132, 2140, 2148, 2157, 2165,
          2173, 2182, 2191, 2199, 2208, 2217, 2225, 2234, 2243, 2252, 2261, 2270,
          2280, 2289, 2298, 2308, 2317, 2327, 2336, 2346, 2356, 2365, 2375, 2385,
          2395, 2405, 2416, 2426, 2436, 2447, 2457, 2468, 2478, 2489, 2500, 2511,
          2522, 2533, 2544, 2555, 2566, 2577, 2589, 2600, 2612, 2624, 2635, 2647,
          2659, 2671, 2683, 2696, 2708, 2720, 2733, 2745, 2758, 2771, 2783, 2796,
          2809, 2822, 2836, 2849, 2862, 2876, 2889, 2903, 2917, 2931, 2945, 2959,
          2973, 2987, 3002, 3016, 3031, 3046, 3060, 3075, 3090, 3105, 3121, 3136,
          3152, 3167, 3183, 3199, 3215, 3231, 3247, 3263, 3279, 3296, 3313, 3329,
          3346, 3363, 3380, 3398, 3415, 3432, 3450, 3468, 3486, 3504, 3522, 3540,
          3558, 3577, 3596, 3614, 3633, 3652, 3672, 3691, 3711, 3730, 3750, 3770,
          3790, 3810, 3830, 3851, 3872, 3892, 3913, 3935, 3956, 3977, 3999, 4020,
          4042, 4064, 4087, 4109, 4131, 4154, 4177, 4200, 4223, 4247, 4270, 4294,
          4318, 4342, 4366, 4390, 4415, 4440, 4464, 4490, 4515, 4540, 4566, 4592,
          4618, 4644, 4670, 4697, 4724, 4751, 4778, 4805, 4833, 4861, 4889, 4917,
          4945, 4974, 5003, 5032, 5061, 5090, 5120, 5150, 5180, 5210, 5240, 5271,
          5302, 5333, 5365, 5396, 5428, 5460, 5493, 5525, 5558, 5591, 5624, 5658,
          5691, 5725, 5760, 5794, 5829, 5864, 5899, 5935, 5970, 6006, 6043, 6079,
          6116, 6153, 6190, 6228, 6266, 6304, 6342, 6381, 6420, 6459, 6499, 6539,
          6579 >>
    ]

\* the steps of a staircase taken at kelvin k or below it
StepsTo(steps, k) == Cardinality({j \in 1..Len(steps) : steps[j] <= k})

\* variant: the channel is not clamped
clamp_255_none(x) == x
\* max(0, min(255, x)) before int()
clamp_255(x) == IF x < 0 THEN 0 ELSE IF x > 255 THEN 255 ELSE x

\* variant: min and max are exchanged, min(1000, max(40000, kelvin))
clamp_kelvin_swapped(kelvin) == 1000
\* max(1000, min(40000, kelvin))
clamp_kelvin(kelvin) == IF kelvin < 1000 THEN 1000 ELSE IF kelvin > 40000 THEN 40000 ELSE kelvin

\* kelvin_to_rgb_255(kelvin), with temp kept in kelvins (the code divides by 100.0):
\* math.log raises for an argument that is not positive
kelvin_to_rgb_255(kelvin) ==
    LET temp == clamp_kelvin(kelvin)
        r == IF temp <= 6600 THEN 255
             ELSE clamp_255(259 - StepsTo(KelvinSteps.red, temp))
        g == IF temp <= 6600 THEN clamp_255(67 + StepsTo(KelvinSteps.green_low, temp))
             ELSE clamp_255(251 - StepsTo(KelvinSteps.green_high, temp))
        b == IF temp >= 6600 THEN 255
             ELSE IF temp <= 1900 THEN 0
             ELSE clamp_255(StepsTo(KelvinSteps.blue, temp) - 1)
    IN [ raised |-> (temp <= 6600 /\ temp <= 0) \/ (temp < 6600 /\ temp > 1900 /\ temp - 1000 <= 0),
         rgb |-> <<r, g, b>> ]

\* hues on both sides of 0..359, and kelvins below, within and above 1000..40000,
\* with the breakpoints 1900 and 6600 and their neighbours
HueArgs == -60..420
KelvinArgs ==
    {-1, 0, 999, 1901, 6599, 6601, 40001}
    \cup {1000 + 50 * j : j \in 0..120}
    \cup {7000 + 1000 * j : j \in 0..33}

\* no colour was computed yet
ColourInit ==
    /\ mpc = "colour"
    /\ midx = 1
    /\ stop_event = FALSE
    /\ effect_thread = 0
    /\ discovered = Hosts
    /\ cache = save_cache(Hosts)
    /\ ips = 1
    /\ selected = 1
    /\ heap = [r \in Refs |-> IF r = 1 THEN sorted(Hosts) ELSE <<>>]
    /\ thr = [t \in Tids |-> NoThread]
    /\ stopped = {}
    /\ cnt = [h \in Hosts |-> 0]
    /\ plog = <<>>
    /\ slept = 0
    /\ scan = NoScan

\* a call of hsv_to_rgb_255 with saturation and value in [0, 1]; the log keeps it
HsvCall ==
    /\ mpc = "colour"
    /\ plog = <<>>
    /\ \E h_deg \in HueArgs, j \in 0..Grain, k \in 0..Grain :
         \E s \in {(100 * j) \div Grain}, v \in {(100 * k) \div Grain} :
         \E rgb \in hsv_to_rgb_255_sv(h_deg, s, v) :
           plog' = <<[fn |-> "hsv", args |-> <<h_deg, s, v>>, raised |-> FALSE, rgb |-> rgb]>>
    /\ UNCHANGED <<mainVars, thr, stopped, cnt, slept, scan>>

\* a call of kelvin_to_rgb_255, the first or the second one; the log keeps both
KelvinCall ==
    /\ mpc = "colour"
    /\ plog = <<>> \/ (Len(plog) = 1 /\ plog[1].fn = "kelvin")
    /\ \E kelvin \in KelvinArgs :
         LET res == kelvin_to_rgb_255(kelvin)
             entry == [fn |-> "kelvin", args |-> <<kelvin>>, raised |-> res.raised, rgb |-> res.rgb]
         IN plog' = Append(plog, entry)
    /\ UNCHANGED <<mainVars, thr, stopped, cnt, slept, scan>>

ColourNext ==
    \/ HsvCall
    \/ KelvinCall

ColourSpec == ColourInit /\ [][ColourNext]_vars

(* ------------------------------ the colours of the commands: CommandSpec *)
\* Saturation, value and the waves are in hundredths.  A draw of random.randint
\* or random.uniform over lo..hi, and a wave between its ends, is followed at
\* both ends and in the middle
Ends(lo, hi) == {lo, (lo + hi) \div 2, hi}

\* key_colors of run_synth, by key
key_colors ==
    [ k1 |-> <<255, 0, 0>>, k2 |-> <<255, 127, 0>>, k3 |-> <<255, 255, 0>>,
      k4 |-> <<0, 255, 0>>, k5 |-> <<0, 255, 255>>, k6 |-> <<0, 0, 255>>,
      k7 |-> <<127, 0, 255>>, k8 |-> <<255, 0, 255>>, k9 |-> <<255, 255, 255>>,
      k0 |-> <<0, 0, 0>> ]

\* the (r, g, b) a continuous effect can pass to set_color_rgb, over its draws
Palette(eff) ==
    LET hsv(H, S, V) == UNION {hsv_to_rgb_255_sv(x[1], x[2], x[3]) : x \in H \X S \X V}
        \* max(0.0, min(1.0, x))
        unit(x) == IF x < 0 THEN 0 ELSE IF x > 100 THEN 100 ELSE x
        \* min(255, x) and min(1.0, x)
        top(x) == IF x > 255 THEN 255 ELSE x
        full(x) == IF x > 100 THEN 100 ELSE x
        \* each channel moved by its own draw, then max(0, min(255, .))
        jitter(C, J) ==
            {<<clamp_255(c[1] + j[1]), clamp_255(c[2] + j[2]), clamp_255(c[3] + j[3])>> :
                 <<c, j>> \in C \X (J \X J \X J)}
        on_off(C) == C \cup {<<0, 0, 0>>}
        \* val, or with the chance of 0.08 min(1.0, val + random.uniform(0.2, 0.6))
        flare(V) == V \cup {full(v + u) : <<v, u>> \in V \X Ends(20, 60)}
        orange == hsv(Ends(22, 38), {unit(s) : s \in Ends(80, 90)},
                      {unit(v) : v \in flare(Ends(35, 75))})
        purple == hsv(Ends(265, 285), {unit(s) : s \in Ends(70, 90)},
                      {unit(v) : v \in flare(Ends(18, 80))})
        \* level in tenths: hue = (1.0 - level) * 240, val = 0.3 + level * 0.7
        by_level == UNION {hsv({240 - 24 * l}, {90}, {30 + 7 * l}) : l \in 0..10}
        winter == {<<180, 220, 255>>, <<200, 230, 255>>, <<150, 200, 255>>, <<255, 255, 255>>}
        spring == {<<100, 255, 150>>, <<150, 255, 200>>, <<255, 200, 220>>, <<200, 255, 255>>}
        summer == {<<255, 255, 100>>, <<255, 200, 50>>, <<255, 150, 50>>, <<255, 100, 100>>}
        fall == {<<255, 140, 0>>, <<255, 100, 50>>, <<200, 80, 40>>, <<180, 50, 30>>}
        \* range(0, 255, 20) up, range(255, 0, -20) down, random.randint(150, 255)
        reds == {20 * j : j \in 0..12} \cup {255 - 20 * j : j \in 0..12} \cup 150..255
        sky == Ends(25, 40) \X Ends(25, 40) \X Ends(40, 60)
        foam == Ends(200, 255) \X Ends(220, 255) \X Ends(240, 255)
        \* base_blue = int(wave * 100 + 100), b = random.randint(base_blue, min(255, base_blue + 80))
        water == UNION {Ends(0, 30) \X Ends(40, 100) \X Ends(base_blue, top(base_blue + 80)) :
                            base_blue \in {wave + 100 : wave \in Ends(0, 100)}}
        \* sat = 0.8 + wave1 * 0.2 and val = 0.6 + wave2 * 0.3, both clamped to [0, 1]
        spores == hsv(Ends(0, 359), {unit(80 + (wave1 * 20) \div 100) : wave1 \in Ends(-100, 100)},
                      {unit(60 + (wave2 * 30) \div 100) : wave2 \in Ends(-100, 100)})
        sparkle(C) ==
            {<<top(c[1] + j[1]), top(c[2] + j[2]), top(c[3] + j[3])>> :
                 <<c, j>> \in C \X (Ends(50, 100) \X Ends(50, 100) \X Ends(50, 100))}
    IN CASE eff = "rainbow_in_unison" -> hsv({3 * j : j \in 0..119}, {100}, {100})
         [] eff = "rainbow" -> hsv(0..359, {100}, {100})
         [] eff = "spooky" -> on_off({<<255, 255, 255>>}) \cup jitter(orange \cup purple, Ends(-8, 8))
         [] eff = "party" -> hsv(Ends(0, 360), Ends(70, 100), Ends(60, 100))
                             \cup hsv(Ends(0, 360), Ends(70, 100), Ends(50, 100))
                             \cup on_off(hsv(Ends(0, 360), {100}, {100}))
         [] eff = "reactive" -> by_level
         [] eff = "seasonal" -> jitter(winter \cup spring \cup summer \cup fall, Ends(-15, 15))
         [] eff = "danger" -> {<<r, 0, 0>> : r \in reds} \cup on_off({<<255, 0, 0>>})
         [] eff = "lightning" -> {<<255, 255, 255>>, <<30, 30, 50>>}
                                 \cup {<<x, x, x>> : x \in 200..255} \cup sky
         [] eff = "waterfall" -> foam \cup water
         [] OTHER -> spores \cup sparkle(spores)

\* what can be typed at a prompt for a number: the integers of S, a line that is
\* no number, and the empty line
Lines(S) == {IntChunk(n) : n \in S} \cup {[k |-> "bad", v |-> 0], [k |-> "empty", v |-> 0]}

\* variant: any integer is taken, the range is not looked at
ask_int_any(line, lo, hi, default) ==
    IF line.k = "empty" THEN [ok |-> TRUE, val |-> default]
    ELSE [ok |-> line.k = "int", val |-> line.v]
\* one turn of a "while True" prompt loop of get_rgba_input or of
\* get_kelvin_temperature: the empty line stands for the default, int() of a
\* line that is no number raises ValueError, and a number outside lo..hi is
\* answered by a message; the loop is left (ok) with a value otherwise
ask_int(line, lo, hi, default) ==
    IF line.k = "empty" THEN [ok |-> TRUE, val |-> default]
    ELSE [ok |-> line.k = "int" /\ lo <= line.v /\ line.v <= hi, val |-> line.v]

\* no request was made yet
CommandInit ==
    /\ mpc = "command"
    /\ midx = 1
    /\ stop_event = FALSE
    /\ effect_thread = 0
    /\ discovered = Hosts
    /\ cache = save_cache(Hosts)
    /\ ips = 1
    /\ selected = 1
    /\ heap = [r \in Refs |-> IF r = 1 THEN sorted(Hosts) ELSE <<>>]
    /\ thr = [t \in Tids |-> NoThread]
    /\ stopped = {}
    /\ cnt = [h \in Hosts |-> 0]
    /\ plog = <<>>
    /\ slept = 0
    /\ scan = NoScan

\* a continuous effect computes a colour and calls set_color_rgb(ip, r, g, b)
EffectCommand ==
    /\ mpc = "command"
    /\ plog = <<>>
    /\ \E eff \in Continuous : \E rgb \in Palette(eff) :
         plog' = <<[ fn |-> eff, got |-> <<>>, rejected |-> {},
                     cmd |-> <<set_color_rgb(rgb[1], rgb[2], rgb[3], 0, 100)>> ]>>
    /\ UNCHANGED <<mainVars, thr, stopped, cnt, slept, scan>>

\* run_synth flashes the colour of a number key: set_color_rgb(ip, r, g, b)
SynthCommand ==
    /\ mpc = "command"
    /\ plog = <<>>
    /\ \E key \in DOMAIN key_colors :
         LET rgb == key_colors[key]
         IN plog' = <<[ fn |-> "synth", got |-> <<>>, rejected |-> {},
                        cmd |-> <<set_color_rgb(rgb[1], rgb[2], rgb[3], 0, 100)>> ]>>
    /\ UNCHANGED <<mainVars, thr, stopped, cnt, slept, scan>>

\* white: one line read by get_kelvin_temperature; with a kelvin returned,
\* run_white converts it and calls set_color_rgb(ip, r, g, b)
WhitePrompt ==
    /\ mpc = "command"
    /\ plog = <<>> \/ (Len(plog) = 1 /\ plog[1].fn = "white" /\ plog[1].cmd = <<>>)
    /\ \E line \in Lines({999, 10001} \cup {1000 + 100 * j : j \in 0..90}) :
         LET was == IF plog = <<>> THEN {} ELSE plog[1].rejected
             temp == ask_int(line, 1000, 10000, 4000)
             rgb == kelvin_to_rgb_255(temp.val).rgb
         IN plog' = IF temp.ok
                    THEN <<[ fn |-> "white", got |-> <<temp.val>>, rejected |-> was,
                             cmd |-> <<set_color_rgb(rgb[1], rgb[2], rgb[3], 0, 100)>> ]>>
                    ELSE <<[ fn |-> "white", got |-> <<>>, rejected |-> was \cup {line},
                             cmd |-> <<>> ]>>
    /\ UNCHANGED <<mainVars, thr, stopped, cnt, slept, scan>>

\* rgba: one line read by get_rgba_input, in the loop of the channel it is at;
\* with the fourth value run_rgba calls set_color_rgb(ip, r, g, b, 0, dimming)
RgbaPrompt ==
    /\ mpc = "command"
    /\ plog = <<>> \/ (Len(plog) = 1 /\ plog[1].fn = "rgba" /\ plog[1].cmd = <<>>)
    /\ LET was == IF plog = <<>> THEN {} ELSE plog[1].rejected
           got == IF plog = <<>> THEN <<>> ELSE plog[1].got
       IN \E line \in Lines(IF Len(got) < 3 THEN ChannelArgs ELSE DimmingArgs) :
            LET x == IF Len(got) < 3 THEN ask_int(line, 0, 255, 255) ELSE ask_int(line, 0, 100, 100)
                now == Append(got, x.val)
            IN plog' = IF ~x.ok
                       THEN <<[ fn |-> "rgba", got |-> got, rejected |-> was \cup {line},
                                cmd |-> <<>> ]>>
                       ELSE <<[ fn |-> "rgba", got |-> now, rejected |-> was,
                                cmd |-> IF Len(now) < 4 THEN <<>>
                                        ELSE <<set_color_rgb(now[1], now[2], now[3], 0, now[4])>> ]>>
    /\ UNCHANGED <<mainVars, thr, stopped, cnt, slept, scan>>

CommandNext ==
    \/ EffectCommand
    \/ SynthCommand
    \/ WhitePrompt
    \/ RgbaPrompt

CommandSpec == CommandInit /\ [][CommandNext]_vars

(* --------------------------------------------------------------- scanner *)
\* A reply datagram is a short sequence of bytes, written over the tokens
\*   "{"  "}"  "m" (one "key": value member)  "n" (null)  "0"  "1"
\*   "x" (other text)  "?" (a byte that is not valid UTF-8)
Replies ==
    { <<"{", "m", "}">>, <<"{", "}">>, <<"n">>, <<"0">>, <<"1">>,
      <<"x", "{", "m", "}">>, <<"{", "m">>, <<"x">>, <<>>,
      <<"x", "?">>, <<"{", "}", "x">> }

\* what the network does to one probe: socket.socket() raises, sendto raises,
\* recvfrom times out, recvfrom raises, or a datagram arrives; bind may fail
\* whenever the socket exists
ProbeOutcomes ==
    { [ev |-> "socket_error", data |-> <<>>, bind_ok |-> TRUE] }
    \cup { [ev |-> e, data |-> <<>>, bind_ok |-> k] :
             e \in {"send_error", "timeout", "recv_error"}, k \in BOOLEAN }
    \cup { [ev |-> "reply", data |-> d, bind_ok |-> k] : d \in Replies, k \in BOOLEAN }

None == [kind |-> "none", n |-> 0, text |-> <<>>]
Dict(n) == [kind |-> "dict", n |-> n, text |-> <<>>]
Num(n) == [kind |-> "int", n |-> n, text |-> <<>>]
\* the sentinel {"_raw": text}
Raw(text) == [kind |-> "raw", n |-> 1, text |-> text]
\* a key the table does not hold
Absent == [kind |-> "absent", n |-> 0, text |-> <<>>]

IsText(c) == c # "?"
\* data.decode("utf-8", errors="ignore"): invalid bytes are dropped
decode(data) == SelectSeq(data, IsText)

\* dec.find("{"): the index of the first opening brace (1-based), 0 if there is none
find_brace(text) ==
    IF \E j \in 1..Len(text) : text[j] = "{"
    THEN CHOOSE j \in 1..Len(text) : text[j] = "{" /\ \A q \in 1..(j - 1) : text[q] # "{"
    ELSE 0

\* json.loads: the value of a complete JSON text, an error otherwise
json_loads(text) ==
    CASE text = <<"{", "}">> -> [ok |-> TRUE, val |-> Dict(0)]
      [] text = <<"{", "m", "}">> -> [ok |-> TRUE, val |-> Dict(1)]
      [] text = <<"n">> -> [ok |-> TRUE, val |-> None]
      [] text = <<"0">> -> [ok |-> TRUE, val |-> Num(0)]
      [] text = <<"1">> -> [ok |-> TRUE, val |-> Num(1)]
      [] OTHER -> [ok |-> FALSE, val |-> None]

\* variant: a reply that does not parse counts as no reply
decode_reply_strict(data) ==
    LET dec == decode(data)
        idx == find_brace(dec)
        obj == json_loads(IF idx # 0 THEN SubSeq(dec, idx, Len(dec)) ELSE dec)
    IN IF obj.ok THEN obj.val ELSE None
\* lines 42-54 of probe_ip: parse from the first brace on, or keep the raw text
decode_reply(data) ==
    LET dec == decode(data)
        idx == find_brace(dec)
        obj == json_loads(IF idx # 0 THEN SubSeq(dec, idx, Len(dec)) ELSE dec)
    IN IF obj.ok THEN obj.val ELSE Raw(decode(data))

\* probe_ip(ip): None when nothing arrived, the decoded reply otherwise; the
\* socket is created outside any try block, so its failure is raised; a failing
\* bind is passed over
probe_ip(outcome) ==
    CASE outcome.ev = "socket_error" -> [raised |-> TRUE, val |-> None]
      [] outcome.ev = "reply" -> [raised |-> FALSE, val |-> decode_reply(outcome.data)]
      [] OTHER -> [raised |-> FALSE, val |-> None]

\* Python truth value of a probe result
truthy(val) == val.kind = "raw" \/ (val.kind \in {"dict", "int"} /\ val.n # 0)

\* variant: every result is stored
record_result_always(table, ip, fut) ==
    LET res == IF fut.raised THEN None ELSE fut.val
    IN [table EXCEPT ![ip] = res]
\* variant: a probe without a result empties the table
record_result_reset(table, ip, fut) ==
    LET res == IF fut.raised THEN None ELSE fut.val
    IN IF truthy(res) THEN [table EXCEPT ![ip] = res] ELSE [h \in Hosts |-> Absent]
\* lines 77-82: res = fut.result(), None if that raises; "if res: discovered[ip] = res"
record_result(table, ip, fut) ==
    LET res == IF fut.raised THEN None ELSE fut.val
    IN IF truthy(res) THEN [table EXCEPT ![ip] = res] ELSE table

Pending == [raised |-> FALSE, val |-> [kind |-> "pending", n |-> 0, text |-> <<>>]]

\* variant: range() yields the same number again
range_next_same(i) == i
\* range(start, end + 1): the number after i
range_next(i) == i + 1

\* variant: the pool starts a thread for every submitted probe
idle_worker_always(busy, workers) == TRUE
\* variant: the pool runs one probe at a time
idle_worker_single(busy, workers) == Cardinality(busy) < 1
\* ThreadPoolExecutor(max_workers=workers): a probe runs only on one of its threads
idle_worker(busy, workers) == Cardinality(busy) < workers

\* Time is counted in probe timeouts: now whole timeouts have passed since the
\* call, and a part of the next one if frac.  CPU steps take no time.
Instant(t, f) == [t |-> t, frac |-> f]

\* scan_ip_range(base_ip, ScanStart, ScanEnd, workers) is called
ScanInit ==
    /\ \E script \in [Hosts -> ProbeOutcomes], workers \in 1..Workers :
         scan = [ phase |-> "submit",
                  script |-> script,
                  workers |-> workers,
                  next |-> ScanStart,
                  queue |-> <<>>,
                  busy |-> {},
                  fut |-> [h \in Hosts |-> Pending],
                  calls |-> [h \in Hosts |-> 0],
                  probes |-> [h \in Hosts |-> 0],
                  began |-> [h \in Hosts |-> Instant(0, FALSE)],
                  now |-> Instant(0, FALSE),
                  seen |-> {},
                  table |-> [h \in Hosts |-> Absent] ]
    /\ mpc = "start"
    /\ midx = 1
    /\ stop_event = FALSE
    /\ effect_thread = 0
    /\ discovered = {}
    /\ cache = NoFile
    /\ ips = 0
    /\ selected = 0
    /\ heap = [r \in Refs |-> <<>>]
    /\ thr = [t \in Tids |-> NoThread]
    /\ stopped = {}
    /\ cnt = [h \in Hosts |-> 0]
    /\ plog = <<>>
    /\ slept = 0

notScan == <<mpc, midx, stop_event, effect_thread, discovered, cache, ips, selected,
             heap, thr, stopped, cnt, plog, slept>>

\* line 74: ex.submit(probe_ip, ip) for the next address of the range
ScanSubmit ==
    /\ scan.phase = "submit"
    /\ scan' = [scan EXCEPT !.queue = Append(@, scan.next),
                            !.next = range_next(@),
                            !.phase = IF scan.next = ScanEnd THEN "collect" ELSE @]
    /\ UNCHANGED notScan

CanStart == scan.queue # <<>> /\ idle_worker(scan.busy, scan.workers)

\* a pool thread takes the oldest queued probe: socket, bind, settimeout, sendto
ProbeStart ==
    /\ scan.phase \in {"submit", "collect"}
    /\ CanStart
    /\ LET ip == Head(scan.queue)
           o == scan.script[ip]
       IN scan' = [scan EXCEPT
                     !.queue = Tail(@),
                     !.calls[ip] = @ + 1,
                     !.probes[ip] = IF o.ev = "socket_error" THEN @ ELSE @ + 1,
                     !.began[ip] = scan.now,
                     !.busy = IF o.ev \in {"socket_error", "send_error"} THEN @ ELSE @ \cup {ip},
                     !.fut[ip] = IF o.ev \in {"socket_error", "send_error"} THEN probe_ip(o) ELSE @]
    /\ UNCHANGED notScan

\* the timeout set at line 28 runs out one timeout after the probe began
Deadline(ip) == Instant(scan.began[ip].t + 1, scan.began[ip].frac)

\* recvfrom returns or raises; the socket is closed and probe_ip returns
ProbeEnd(ip) ==
    /\ ip \in scan.busy
    /\ scan.script[ip].ev = "timeout" => scan.now = Deadline(ip)
    /\ scan' = [scan EXCEPT !.busy = @ \ {ip},
                            !.fut[ip] = probe_ip(scan.script[ip])]
    /\ UNCHANGED notScan

\* lines 75-82: as_completed yields a finished future
ScanCollect(ip) ==
    /\ scan.phase = "collect"
    /\ ip \notin scan.seen
    /\ scan.fut[ip] # Pending
    /\ scan' = [scan EXCEPT !.seen = @ \cup {ip},
                            !.table = record_result(@, ip, scan.fut[ip])]
    /\ UNCHANGED notScan

\* line 83: every future was handled, the pool is shut down, the table is returned
ScanReturn ==
    /\ scan.phase = "collect"
    /\ scan.seen = Hosts
    /\ scan' = [scan EXCEPT !.phase = "done"]
    /\ UNCHANGED notScan

\* time passes while every thread waits in recvfrom: up to the next whole
\* timeout, or into the timeout that follows it.  A probe that began at a whole
\* instant ends at the next one at the latest; one that began in between ends
\* before the whole instant after that
Elapse ==
    /\ scan.phase = "collect"
    /\ scan.busy # {}
    /\ ~CanStart
    /\ \A ip \in Hosts \ scan.seen : scan.fut[ip] = Pending
    /\ \A ip \in scan.busy :
         IF scan.now.frac
         THEN scan.began[ip] # Instant(scan.now.t - 1, TRUE)
         ELSE scan.began[ip] # Instant(scan.now.t - 1, FALSE)
    /\ scan' = [scan EXCEPT !.now = IF scan.now.frac THEN Instant(scan.now.t + 1, FALSE)
                                    ELSE Instant(scan.now.t, TRUE)]
    /\ UNCHANGED notScan

ScanNext ==
    \/ ScanSubmit
    \/ ProbeStart
    \/ \E ip \in Hosts : ProbeEnd(ip)
    \/ \E ip \in Hosts : ScanCollect(ip)
    \/ ScanReturn
    \/ Elapse

ScanSpec == ScanInit /\ [][ScanNext]_vars

\* the pool threads and the caller keep running, and the clock keeps going
FairScanSpec == ScanSpec /\ WF_vars(ScanNext)

(* ================================================================ claims *)
Alive(t) == thr[t].st = "run"

\* thread t hands a command to set_color_rgb in this step and goes on
SendsCommand(t) ==
    /\ Alive(t)
    /\ thr[t].todo # <<>>
    /\ Head(thr[t].todo).op = "pass"
    /\ ~PassOver(heap[thr[t].ips], thr[t].i)
    /\ thr'[t] # thr[t]
    /\ thr'[t].st = "run"

\* C1: at every point of a session at most one effect thread is alive; when
\* main() starts a thread, every thread it started earlier has terminated.
AtMostOneEffectThread == Cardinality({t \in Tids : Alive(t)}) <= 1

\* C2: once the stop step (set, join) has returned for a thread, that thread
\* sends no further command.
NoSendAfterStopStep == [][\A t \in stopped : ~SendsCommand(t)]_vars

\* C3: whenever a thread is alive at the top of a loop iteration, the stop signal
\* has been raised and the join has returned before main() clears the signal and
\* calls choose_effect() (and so before any later thread is started).
StopStepBeforeChoose == (mpc = "clear" /\ \E t \in Tids : Alive(t)) => stop_event

\* C4: the stop step cannot block: while main() waits in the join, the join can
\* return; when it returns with the thread still running, the thread is left as
\* it is, and main() clears the signal and asks for the next request as it does
\* when no effect was active.
StopStepNeverBlocks ==
    [][ /\ (mpc = "join" => ENABLED MainJoin)
        /\ (mpc = "join" /\ mpc' # "join") => (mpc' = "clear" /\ thr' = thr /\ heap' = heap)
        /\ (mpc = "clear" /\ mpc' # "clear") => (mpc' = "choose" /\ ~stop_event') ]_vars

\* C4 witness: the join has returned on its timeout, the thread is still running
JoinTimedOut ==
    /\ mpc = "clear"
    /\ stop_event
    /\ effect_thread # 0
    /\ Alive(effect_thread)

\* C5: in each of the ten continuous loops, at most one sleep begins after the
\* stop signal was raised.
AtMostOneSleepAfterStop == (thr[1].eff # "reactive") => slept <= 1

\* C6: while a thread runs, the list it iterates stays the same object with the
\* same elements, whatever main() does to ips and selected.
ListFixedAtStart ==
    [][\A t \in Tids :
         (Alive(t) /\ thr'[t].st = "run") =>
             /\ thr'[t].ips = thr[t].ips
             /\ heap'[thr[t].ips] = heap[thr[t].ips]]_vars

\* C6 witness: a thread that the stop step left running still holds its list
\* after main() has bound selected to another list with other elements
SelectionReboundWhileRunning ==
    \E t \in stopped :
        /\ Alive(t)
        /\ selected # thr[t].ips
        /\ heap[selected] # heap[thr[t].ips]
        /\ heap[thr[t].ips] # <<>>

\* C7: run_rainbow_in_unison over two addresses sends every address of a pass
\* the same (r, g, b), and once the thread has exited on the stop signal both
\* addresses have been sent the same number of commands.
UnisonBalanced ==
    (thr[1].eff = "rainbow_in_unison" /\ Len(heap[1]) = 2) =>
        /\ \A j, k \in 1..Len(plog) : plog[j].rgb = plog[k].rgb
        /\ (thr[1].st = "dead" /\ thr[1].how = "stop") =>
               cnt[heap[1][1]] = cnt[heap[1][2]]

\* C7 witness: the thread has exited on the stop signal after full passes
UnisonStopped ==
    /\ thr[1].eff = "rainbow_in_unison"
    /\ Len(heap[1]) = 2
    /\ thr[1].st = "dead"
    /\ thr[1].how = "stop"
    /\ Len(plog) = 2
    /\ cnt[heap[1][1]] = MaxIter

PassInOrder ==
    \A j \in 1..Len(plog) : plog[j].at = j /\ plog[j].to = heap[1][j]

\* C9 witness: a pass over two addresses is complete
FullPassLogged ==
    /\ Len(heap[1]) = 2
    /\ Len(plog) = 2
    /\ plog[1].to # plog[2].to

\* C10: the table scan_ip_range builds holds no address whose probe got no reply.
OnlyRepliersInTable ==
    \A h \in Hosts :
        scan.table[h] # Absent =>
            /\ scan.script[h].ev = "reply"
            /\ scan.table[h] = decode_reply(scan.script[h].data)

\* C10 witness: the scan has returned a table with one address that replied and
\* without one whose probe timed out
ScanKeptReplier ==
    /\ scan.phase = "done"
    /\ \E h \in Hosts : scan.table[h] # Absent
    /\ \E h \in Hosts : scan.script[h].ev = "timeout" /\ scan.table[h] = Absent

\* the addresses of the range from which a datagram arrived
Repliers == {h \in Hosts : scan.script[h].ev = "reply"}
\* the keys of the table
Keys(table) == {h \in Hosts : table[h] # Absent}

\* C11: the keys of the returned table are exactly the probed addresses that
\* replied, whatever the reply holds.
KeysAreRepliers == (scan.phase = "done") => Keys(scan.table) = Repliers

\* C12: a probe that fails does not abort the scan, and the returned table holds
\* every other address that replied.
ProbeFailureIsolated ==
    /\ (scan.phase \in {"submit", "collect"}) => ENABLED ScanNext
    /\ (scan.phase = "done") =>
           \A h \in Hosts \ Repliers : \A other \in Repliers \ {h} : other \in Keys(scan.table)

\* C13 as stated: every address is probed exactly once, with exactly one send
\* attempted per address.
OneSendPerProbe ==
    /\ \A h \in Hosts : scan.calls[h] <= 1 /\ scan.probes[h] <= 1
    /\ (scan.phase = "done") => \A h \in Hosts : scan.calls[h] = 1 /\ scan.probes[h] = 1

\* C13 amended: probe_ip is called exactly once per address and attempts at most
\* one send: exactly one, unless the socket cannot be created, and then none; a
\* timeout or an error never leads to a second call or send.
OneProbePerAddress ==
    /\ \A h \in Hosts : scan.calls[h] <= 1 /\ scan.probes[h] <= scan.calls[h]
    /\ (scan.phase = "done") =>
           \A h \in Hosts :
               /\ scan.calls[h] = 1
               /\ scan.probes[h] = IF scan.script[h].ev = "socket_error" THEN 0 ELSE 1

\* C13 witness: the scan has returned after a probe timed out and after another
\* could not send
ProbedOnceDespiteFailure ==
    /\ scan.phase = "done"
    /\ \E h \in Hosts : scan.script[h].ev = "timeout" /\ scan.probes[h] = 1
    /\ \E h \in Hosts : scan.script[h].ev = "send_error" /\ scan.probes[h] = 1

\* what the outcome of the probe of one address leaves in the table
Entry(o) ==
    CASE o.ev # "reply" -> Absent
      [] decode(o.data) \in {<<"{", "m", "}">>, <<"x", "{", "m", "}">>} -> Dict(1)
      [] decode(o.data) = <<"1">> -> Num(1)
      [] decode(o.data) \in {<<"{", "}">>, <<"n">>, <<"0">>} -> Absent
      [] OTHER -> Raw(decode(o.data))

\* C14: the table is a function of the per-address outcomes alone: whatever the
\* order in which probes run, end and are collected, each collected address has
\* the entry its own outcome gives, and no other address has one.
TableIgnoresOrder ==
    \A h \in Hosts :
        scan.table[h] = IF h \in scan.seen THEN Entry(scan.script[h]) ELSE Absent

\* C14 witness: the address submitted last was collected first, with an entry,
\* while the probe of the first address is still waiting
CollectedOutOfOrder ==
    /\ scan.seen = {ScanEnd}
    /\ scan.table[ScanEnd] # Absent
    /\ ScanStart \in scan.busy

\* C15: the probes in flight never outnumber the workers argument.
InFlightBounded == Cardinality(scan.busy) <= scan.workers

\* C15 witness: every worker is waiting for a reply and a probe waits for a worker
PoolFull ==
    /\ Cardinality(scan.busy) = scan.workers
    /\ scan.queue # <<>>
    /\ scan.phase = "collect"

\* C16: the scan returns; it returns only after every probe has ended and was
\* collected; with at least as many workers as addresses it returns within one
\* probe timeout.
ScanTerminatesInOneTimeout ==
    /\ <>(scan.phase = "done")
    /\ [](scan.phase = "done" =>
            /\ scan.busy = {} /\ scan.queue = <<>> /\ scan.seen = Hosts
            /\ \A h \in Hosts : scan.fut[h] # Pending
            /\ scan.workers >= Cardinality(Hosts) =>
                   scan.now \in {Instant(0, FALSE), Instant(0, TRUE), Instant(1, FALSE)})

\* C16 witness: no address replied, there was a worker for each, and the scan
\* has returned after exactly one timeout
AllTimedOutTogether ==
    /\ scan.phase = "done"
    /\ scan.workers >= Cardinality(Hosts)
    /\ \A h \in Hosts : scan.script[h].ev = "timeout"
    /\ scan.now = Instant(1, FALSE)

\* replies that are no JSON text from their first opening brace on
Malformed == {<<"{", "m">>, <<"x">>, <<>>, <<"x", "?">>, <<"{", "}", "x">>}

RescanRestrictsSelection ==
    [][MainRescan =>
         LET In(x) == x \in discovered'
             kept == SelectSeq(heap[selected], In)
         IN /\ heap'[ips'] = sorted(discovered')
            /\ IF kept # <<>>
               THEN heap'[selected'] = kept /\ mpc' = "top"
               ELSE /\ \E inp \in SelInputs :
                         heap'[selected'] = prompt_user_selection(sorted(discovered'), inp).list
                    /\ mpc' = IF heap'[selected'] = <<>> THEN "done" ELSE "top"]_vars

\* C18 witness: a rescan found the first address only; the session goes on with
\* the selection cut down to it
SelectionCutDown ==
    /\ mpc = "top"
    /\ discovered = {ScanStart}
    /\ heap[ips] = <<ScanStart>>
    /\ heap[selected] = <<ScanStart, ScanStart>>

\* C19: after every rescan the persisted cache holds the table that rescan
\* returned, an empty one included.
CacheFollowsRescan == [][MainRescan => cache' = save_cache(discovered')]_vars

\* C20: handling change_bulbs changes nothing but the selection: the table, the
\* candidate list, the cache, the threads and what was sent and probed stay.
ChangeBulbsFrame ==
    [][MainChangeBulbs(LongInputs) =>
         /\ discovered' = discovered
         /\ cache' = cache
         /\ ips' = ips
         /\ heap'[ips] = heap[ips]
         /\ thr' = thr
         /\ effect_thread' = effect_thread
         /\ cnt' = cnt
         /\ plog' = plog
         /\ scan' = scan]_vars

\* C20 witness: change_bulbs was answered with "all" when no command had been
\* sent yet: the selection is the candidate list itself, which still holds
\* both addresses
ChangeBulbsHandled ==
    /\ mpc = "top"
    /\ discovered = Hosts
    /\ cache = save_cache(Hosts)
    /\ heap[ips] = sorted(Hosts)
    /\ selected = ips
    /\ \A h \in Hosts : cnt[h] = 0

\* C22: when main() has returned, no effect thread is alive with the stop signal
\* unset, by whichever way main() left the loop.
StoppedOnReturn == (mpc = "done") => \A t \in Tids : Alive(t) => stop_event

\* C25: the stop step taken while no effect thread is alive (none started, or the
\* last one has exited) is a no-op: the signal is unset before and after, nothing
\* is joined, and the selection, the table and the threads stay as they are.
IdleStopIsNoOp ==
    [][(MainTop /\ \A t \in Tids : ~Alive(t)) =>
          /\ ~stop_event
          /\ ~stop_event'
          /\ mpc' = "clear"
          /\ stopped' = stopped
          /\ selected' = selected
          /\ ips' = ips
          /\ heap' = heap
          /\ discovered' = discovered
          /\ thr' = thr]_vars

\* C25 witness: the stop step was passed over for a thread that had ended by itself
IdleStopAfterExit ==
    /\ mpc = "clear"
    /\ ~stop_event
    /\ effect_thread # 0
    /\ thr[effect_thread].st = "dead"
    /\ \A t \in Tids : ~Alive(t)
    /\ stopped = {}

\* C26: a start request handled while an effect thread is still alive fails and
\* starts no second thread.
NoStartWhileRunning ==
    [][(MainStart(SessionMenu) /\ \E t \in Tids : Alive(t)) =>
          /\ thr' = thr
          /\ mpc' = "raised"]_vars

\* C27: when the startup scan finds nothing, or a rescan finds nothing and so
\* leaves nothing to select, main() returns: nothing is raised, no thread is
\* started and no command is sent; before the first selection no thread exists.
NoDeviceEndsQuietly ==
    [][ /\ (mpc \in {"start", "scan", "select"}) =>
             /\ effect_thread = 0
             /\ \A t \in Tids : thr[t].st = "new"
        /\ (mpc = "scan" /\ mpc' # "scan") => mpc' = "select"
        /\ (mpc = "select" /\ mpc' # "select" /\ discovered = {}) =>
             /\ mpc' = "done"
             /\ heap'[selected'] = <<>>
             /\ thr' = thr
             /\ effect_thread' = effect_thread
             /\ <<cnt, plog, midx>>' = <<cnt, plog, midx>>
        /\ (mpc = "choose" /\ discovered' # discovered /\ discovered' = {}) =>
             /\ mpc' = "done"
             /\ heap'[selected'] = <<>>
             /\ thr' = thr
             /\ effect_thread' = effect_thread
             /\ <<cnt, plog, midx>>' = <<cnt, plog, midx>> ]_vars

\* C27 witness: there was no cache file, the startup scan found nothing and
\* main() has returned
NothingFoundAtStartup ==
    /\ mpc = "done"
    /\ cache = NoFile
    /\ discovered = {}
    /\ ips # 0
    /\ heap[ips] = <<>>
    /\ effect_thread = 0

\* C28: at startup the scan runs exactly when the cache file gives no table (it is
\* missing, unreadable, no object, or an empty object); a table that was loaded
\* goes to the first selection as it is, without a scan; nothing is raised.
ScanIffNoCachedTable ==
    [][ /\ (mpc = "start" /\ mpc' # "start") =>
             /\ mpc' \in {"scan", "select"}
             /\ (mpc' = "scan") <=> (cache.form # "dict" \/ cache.keys = {})
             /\ (mpc' = "select") => discovered' = cache.keys
        /\ (mpc' = "scan" /\ mpc # "scan") => mpc = "start"
        /\ (mpc = "scan" /\ mpc' # "scan") => mpc' = "select" ]_vars

\* C28 witness: the cache file could not be read and the startup scan is running
ScanAfterUnreadableCache ==
    /\ mpc = "scan"
    /\ cache.form = "unreadable"
    /\ discovered = {}

\* C21: a one-shot request has sent every address of the selection exactly one
\* command when main() reaches the continue prompt; it is handled on the control
\* thread, starts no thread, and nothing is sent while main() waits at the prompt.
OneShotServesEachOnce ==
    [][ /\ (mpc \in {"white", "rgba"} /\ mpc' = "input") =>
             \A h \in Range(heap[selected]) :
                 Cardinality({j \in 1..Len(plog') : plog'[j].to = h}) = 1
        /\ (mpc \in {"choose", "white", "rgba"} /\ mpc' \in {"white", "rgba", "input"}) =>
             /\ thr' = thr
             /\ effect_thread' = effect_thread
        /\ (mpc = "input") => <<cnt, plog>>' = <<cnt, plog>> ]_vars

\* C23: the selection holds only addresses of the candidate list, and each at
\* most once.
SelectionWithoutRepeats ==
    /\ Range(heap[selected]) \subseteq Range(heap[ips])
    /\ \A j, k \in 1..Len(heap[selected]) : j # k => heap[selected][j] # heap[selected][k]

\* C29: run_synth checks the signal before every read of a key and, once a check
\* finds it set, returns without sending anything more; on the non-Windows path
\* a read gives up after its timeout, so a signal that is set is observed and
\* run_synth returns.
SynthObservesStop ==
    /\ [][ /\ (mpc \in {"synth", "synth_win"} /\ stop_event /\ mpc' # mpc) =>
                /\ mpc' = "top"
                /\ <<cnt, plog>>' = <<cnt, plog>>
           /\ (mpc' \in {"synth_select", "synth_input"} /\ mpc' # mpc) =>
                /\ mpc \in {"synth", "synth_win"}
                /\ ~stop_event
           /\ (mpc = "top") => <<cnt, plog>>' = <<cnt, plog>> ]_vars
    /\ (stop_event /\ mpc \in {"synth", "synth_select", "synth_pass"}) ~> (mpc \in {"top", "raised"})

\* C29 witness: on the non-Windows path a flash was sent and run_synth is back
\* at its check, with the signal set meanwhile
SynthStoppedBySignal ==
    /\ mpc = "synth"
    /\ stop_event
    /\ Len(plog) = Len(heap[selected])
    /\ \E h \in Hosts : cnt[h] = 1

\* C24 as stated: no step of the control thread hands a command to set_color_rgb.
ControlThreadSendsNothing ==
    [][(<<mpc, midx>>' # <<mpc, midx>>) => <<cnt, plog>>' = <<cnt, plog>>]_vars

\* C24 amended: the commands of a continuous effect are sent by steps of its
\* thread, and starting it sends nothing; the control thread sends the commands
\* of the one-shot requests and of synth itself, and no others.
ControlSendsOnlyForeground ==
    [][ /\ (<<cnt, plog>>' # <<cnt, plog>>) =>
             \/ /\ <<mpc, midx>>' = <<mpc, midx>>
                /\ \E t \in Tids : Alive(t) /\ thr'[t] # thr[t]
             \/ /\ mpc \in {"white", "rgba", "synth_pass", "synth_win_pass"}
                /\ thr' = thr
        /\ (mpc = "choose" /\ mpc' = "wait") => <<cnt, plog>>' = <<cnt, plog>>
        /\ (mpc \in {"wait", "join", "exit_join", "top", "clear", "choose", "input"}
              /\ <<mpc, midx>>' # <<mpc, midx>>) => <<cnt, plog>>' = <<cnt, plog>> ]_vars

\* C24 witness: a one-shot pass has been sent by the control thread while an
\* effect thread that has sent a pass of its own is still alive
ForegroundBesideBackground ==
    /\ mpc = "input"
    /\ Len(plog) = Len(heap[selected])
    /\ \E t \in Tids : Alive(t) /\ thr[t].iter >= 1
    /\ \E h \in Hosts : cnt[h] = MaxIter

\* C30: every command sent through set_color_rgb carries r, g and b within
\* 0..255 and dimming within 0..100, whatever integers were passed.
PilotInRange ==
    \A j \in 1..Len(plog) :
        plog[j].sent =>
            /\ plog[j].params.r \in 0..255
            /\ plog[j].params.g \in 0..255
            /\ plog[j].params.b \in 0..255
            /\ plog[j].params.dimming \in 0..100

\* C31: hsv_to_rgb_255 (any hue, saturation and value in [0, 1]) and
\* kelvin_to_rgb_255 (any integer kelvin) raise nothing and return three integers
\* within 0..255 each.
ColourInRange ==
    \A j \in 1..Len(plog) :
        /\ ~plog[j].raised
        /\ \A c \in 1..3 : plog[j].rgb[c] \in 0..255

\* C31 witness: kelvin_to_rgb_255 was called just above the breakpoint, where the
\* red curve lies above 255 before it is clamped, and below the clamped range
ClampedChannels ==
    /\ Len(plog) = 2
    /\ plog[1].fn = "kelvin" /\ plog[1].args = <<6601>> /\ plog[1].rgb[1] = 255
    /\ plog[2].args = <<-1>> /\ plog[2].rgb = <<255, 67, 0>>

\* C32 as stated: 2700 K gives red above blue; 6500 K gives red 255 and a blue
\* below the blue of 2700 K.
CoolBlueBelowWarm ==
    \A j, k \in 1..Len(plog) :
        (plog[j].fn = "kelvin" /\ plog[j].args = <<2700>> /\ plog[k].args = <<6500>>) =>
            /\ plog[j].rgb[1] > plog[j].rgb[3]
            /\ plog[k].rgb[1] = 255
            /\ plog[k].rgb[3] < plog[j].rgb[3]

\* C32 amended: 2700 K gives red above blue; 6500 K gives red 255 and a blue
\* above the blue of 2700 K.
CoolBlueAboveWarm ==
    \A j, k \in 1..Len(plog) :
        (plog[j].fn = "kelvin" /\ plog[j].args = <<2700>> /\ plog[k].args = <<6500>>) =>
            /\ plog[j].rgb[1] > plog[j].rgb[3]
            /\ plog[k].rgb[1] = 255
            /\ plog[k].rgb[3] > plog[j].rgb[3]

\* C32 witness: both temperatures were converted
WarmAndCoolConverted ==
    /\ Len(plog) = 2
    /\ plog[1].fn = "kelvin" /\ plog[1].args = <<2700>> /\ plog[1].rgb = <<255, 166, 87>>
    /\ plog[2].args = <<6500>> /\ plog[2].rgb = <<255, 254, 250>>

\* C33: under fair scheduling every effect thread for which main() has performed
\* the stop step terminates, whether the join returned on the thread's exit or on
\* its timeout.
StoppedThreadsTerminate ==
    \A t \in Tids : (t \in stopped) ~> (thr[t].st = "dead" \/ mpc = "done")

\* C34: the stop signal is unset whenever choose_effect() is called and whenever
\* an effect (a background thread or run_synth) is started, so no effect is
\* started into a signal raised for an earlier one.
SignalUnsetAtStart ==
    [][ /\ (mpc' = "choose") => ~stop_event'
        /\ (mpc = "choose" /\ mpc' \in {"wait", "synth"}) =>
             /\ ~stop_event
             /\ ~stop_event'
        /\ \A t \in Tids : (thr[t].st = "new" /\ thr'[t].st = "run") => ~stop_event' ]_vars

\* C34 witness: a second effect was started after the stop step of the first had
\* raised the signal and timed out; the signal is unset
StartedAfterStopStep ==
    /\ mpc = "wait"
    /\ ~stop_event
    /\ stopped # {}
    /\ effect_thread \notin stopped
    /\ Alive(effect_thread)
    /\ \E t \in stopped : Alive(t)

\* C35: whenever main() asks for a request, dispatches a one-shot command, runs
\* synth or starts a continuous effect, the selection is not empty and each of
\* its addresses is a key of the current table, whatever rescan and change_bulbs
\* requests came before.
SelectionServable ==
    (mpc \in {"top", "clear", "choose", "white", "rgba", "synth", "synth_select", "synth_pass", "wait"}) =>
        /\ heap[selected] # <<>>
        /\ Range(heap[selected]) \subseteq discovered
        /\ Range(heap[ips]) = discovered

\* C35 witness: a second effect runs over the selection that a rescan cut down
\* to the one address it found, beside a thread started over both addresses
StartedAfterRescan ==
    /\ mpc = "wait"
    /\ discovered = {ScanEnd}
    /\ heap[selected] = <<ScanEnd>>
    /\ thr[effect_thread].ips = selected
    /\ \E t \in stopped : Alive(t) /\ heap[thr[t].ips] = sorted(Hosts)

\* C36: a change_bulbs request never ends the session: whatever the user types,
\* change_bulb_selection returns a selection that is not empty, and main() goes
\* to the top of its loop.
ChangeBulbsGoesOn ==
    [][MainChangeBulbs(LongInputs) =>
         /\ mpc' = "top"
         /\ heap'[selected'] # <<>>
         /\ Range(heap'[selected']) \subseteq Range(heap[ips])]_vars

\* C36 witness: a one-shot pass had served the first address alone; change_bulbs
\* then widened the selection to both, and the session goes on
SelectionWidened ==
    /\ mpc = "top"
    /\ cnt[ScanStart] = 1
    /\ cnt[ScanEnd] = 0
    /\ Range(heap[selected]) = Hosts

\* C38: while run_synth runs from main() nobody sets the stop signal, so its
\* check never ends it and it returns only from the read of a key ('q', or on
\* Windows also end of input and Ctrl+C); main() then goes to the next request
\* through the loop top, without a continue prompt.
SynthLeftByUser ==
    [][ /\ (mpc \in {"synth", "synth_select", "synth_pass", "synth_win", "synth_input", "synth_win_pass"}) =>
             /\ ~stop_event
             /\ ~stop_event'
        /\ (mpc \in {"synth", "synth_win"} /\ mpc' # mpc) => mpc' \in {"synth_select", "synth_input"}
        /\ (mpc \in {"synth_pass", "synth_win_pass"} /\ mpc' # mpc) => mpc' \in {"synth", "synth_win", "raised"}
        /\ (mpc \in {"synth_select", "synth_input"} /\ mpc' # mpc) =>
             mpc' \in {"top", "synth", "synth_win", "synth_pass", "synth_win_pass"}
        /\ (mpc \in {"top", "join", "clear"} /\ mpc' # mpc) => mpc' \in {"join", "clear", "choose"} ]_vars

\* C38 witness: run_synth waits for a line on Windows after a flash, beside an
\* effect thread that a timed-out join left running; the signal is unset
SynthBesideAbandonedThread ==
    /\ mpc = "synth_input"
    /\ ~stop_event
    /\ \E t \in stopped : Alive(t)
    /\ \E h \in Hosts : cnt[h] = MaxIter

\* C37: every command dispatched in a session (by a continuous effect at any of
\* its random draws, by synth, by white, and by rgba with the values
\* get_rgba_input returned) has r, g and b within 0..255 and dimming within 0..100.
CommandsInRange ==
    \A j \in 1..Len(plog) : \A c \in 1..Len(plog[j].cmd) :
        /\ plog[j].cmd[c].r \in 0..255
        /\ plog[j].cmd[c].g \in 0..255
        /\ plog[j].cmd[c].b \in 0..255
        /\ plog[j].cmd[c].dimming \in 0..100

\* C37 witness: rgba was dispatched after get_rgba_input turned down 256, -1 and
\* a line that is no number for a channel and 101 for the dimming
RgbaSentAfterRejections ==
    /\ Len(plog) = 1
    /\ plog[1].fn = "rgba"
    /\ Len(plog[1].cmd) = 1
    /\ {IntChunk(256), IntChunk(-1), IntChunk(101), [k |-> "bad", v |-> 0]} \subseteq plog[1].rejected

====
